---- MODULE Spec2Model ----
(***************************************************************************)
(* Model of the cost calculation engine of the LLM pricing simulator       *)
(* (src/src/calculator.py, src/src/models.py) and of the dashboard's       *)
(* frequency impact analysis that drives it (src/dashboard.py).            *)
(*                                                                         *)
(* Money is exact: prices are whole USD per million tokens, so a cost      *)
(* (tokens/1e6)*price is an integer number of micro-dollars (1e-6 USD).    *)
(* round(x, 2) yields an integer number of cents.  Optional[T] is <<>>     *)
(* for None and <<v>> for a value.  A Python dict is a sequence of         *)
(* [k, v] entries in insertion order.                                      *)
(***************************************************************************)
EXTENDS Integers, Sequences, FiniteSets, TLC

----------------------------------------------------------------------------
(* Optional values and insertion-ordered dicts *)

None == <<>>

Some(v) == <<v>>

DictHas(d, k) == \E i \in 1..Len(d) : d[i].k = k

DictGet(d, k, default) ==
    IF DictHas(d, k) THEN d[CHOOSE i \in 1..Len(d) : d[i].k = k].v ELSE default

DictSet(d, k, v) ==
    IF DictHas(d, k)
    THEN [i \in 1..Len(d) |-> IF d[i].k = k THEN [k |-> k, v |-> v] ELSE d[i]]
    ELSE Append(d, [k |-> k, v |-> v])

\* sum(d.values())
RECURSIVE DictSum(_)
DictSum(d) == IF d = <<>> THEN 0 ELSE d[1].v + DictSum(Tail(d))

\* sum of a sequence of numbers
RECURSIVE SumSeq(_)
SumSeq(q) == IF q = <<>> THEN 0 ELSE q[1] + SumSeq(Tail(q))

\* {model_id: 0.0 for model_id in models}
RECURSIVE ZeroDict(_)
ZeroDict(models) ==
    IF models = <<>> THEN <<>>
    ELSE DictSet(ZeroDict(SubSeq(models, 1, Len(models) - 1)),
                 models[Len(models)], 0)

\* AddTo that keeps the amount a key already has
AddTo_keep_first(d, k, v) == IF DictHas(d, k) THEN d ELSE DictSet(d, k, v)

\* AddTo that stores the new amount over the old one
AddTo_overwrite(d, k, v) == DictSet(d, k, v)

\* d[k] = d.get(k, 0.0) + v
AddTo(d, k, v) == DictSet(d, k, DictGet(d, k, 0) + v)

\* for k, v in src.items(): acc[k] = acc.get(k, 0.0) + v
RECURSIVE DictAddAll(_, _)
DictAddAll(acc, src) ==
    IF src = <<>> THEN acc
    ELSE DictAddAll(AddTo(acc, src[1].k, src[1].v), Tail(src))

----------------------------------------------------------------------------
(* Bounds of the explored inputs *)

MaxModels == 3

MaxSteps == 2

MaxGroups == 2

\* scenario files handed to one compare_scenarios call
MaxPaths == 3

\* calls of the price fetcher, or of the Simulator, in one run
MaxCalls == 3

\* advances of the clock in one run
MaxTicks == 2

----------------------------------------------------------------------------
(* Arithmetic *)

MicroPerCent == 10000

\* round(x, 2) of x micro-dollars, again in micro-dollars: the nearest whole
\* cent.  Half a cent goes where the binary float holding x lies, which exact
\* arithmetic does not tell: either neighbour is possible.
Round2(x) ==
    LET q == x \div MicroPerCent
        r == x % MicroPerCent
    IN  IF 2 * r > MicroPerCent THEN {(q + 1) * MicroPerCent}
        ELSE IF 2 * r < MicroPerCent THEN {q * MicroPerCent}
        ELSE {q * MicroPerCent, (q + 1) * MicroPerCent}

\* exactly half a cent above a whole number of cents
HalfCent(x) == 2 * (x % MicroPerCent) = MicroPerCent

\* IntTrunc rounding to the nearest integer
IntTrunc_nearest(n, d) == (2 * n + d) \div (2 * d)

\* int(n / d): truncation toward zero, d > 0
IntTrunc(n, d) == IF n >= 0 THEN n \div d ELSE -((-n) \div d)

----------------------------------------------------------------------------
(* State *)

VARIABLES
    prices,                 \* CostCalculator.prices
    scenario,               \* the argument of calculate_scenario
    pc,                     \* position in calculate_scenario
    gi,                     \* index of the group the loop of line 48 is at
    si,                     \* index of the step the loop of line 113 is at
    total_cost,             \* locals of calculate_scenario
    total_calls,
    total_input_tokens,
    total_output_tokens,
    by_model,
    by_intent_group,
    by_step,
    runs_per_month,         \* locals of _calculate_intent_group
    total_prompts,
    previous_output_tokens,
    group_total_cost,
    group_by_model,
    group_by_step,
    step_log,               \* locals of each _calculate_flow_step call so far
    result,                 \* the returned SimulationResult, None before
    raised,                 \* the exception propagated to the caller, None if none
    ui_scenario,            \* dashboard: the scenario on display
    freq_i,                 \* dashboard: position in the frequencies loop
    freq_results,           \* dashboard: freq_results
    ties,                   \* how round() has settled the half-cent figures so far
    paths,                  \* compare_scenarios: scenario_paths, as the scenarios they hold
    results,                \* compare_scenarios: results
    report,                 \* run_simulation: output, the report generated, None before
    now,                    \* datetime.now(), in hours
    cache,                  \* data/price_cache.json: None, or its mtime and content
    overrides_file,         \* data/overrides.json: None, or its entries in file order
    fetched,                \* the last fetch_prices call: its arguments and outcome
    call_count,             \* how many calls the front end has made
    sim,                    \* Simulator: prices, calculator, and the method running
    parked,                 \* the scenario and locals of the thread that is not running
    tid,                    \* the thread that is running
    alone                   \* what each scenario gave when it was calculated alone

calc_vars == <<pc, gi, si, total_cost, total_calls, total_input_tokens,
               total_output_tokens, by_model, by_intent_group, by_step,
               runs_per_month, total_prompts, previous_output_tokens,
               group_total_cost, group_by_model, group_by_step, step_log,
               result, raised>>

\* what the front ends besides the dashboard and the comparison hold
fetch_vars == <<now, cache, overrides_file, fetched, call_count, sim>>

thread_vars == <<parked, tid, alone>>

env_vars == <<report, fetch_vars, thread_vars>>

ui_vars == <<ui_scenario, freq_i, freq_results, paths, results, env_vars>>

vars == <<prices, scenario, calc_vars, ties, ui_vars>>

----------------------------------------------------------------------------
(* Pure helpers of CostCalculator *)

Ok(v) == [err |-> "", val |-> v]

Raise(msg) == [err |-> msg, val |-> 0]

\* _get_runs_per_month counting a started week as a run
_get_runs_per_month_weeks_up(frequency, days_per_month, custom_runs) ==
    IF frequency = "hourly" THEN Ok(24 * days_per_month)
    ELSE IF frequency = "2_hourly" THEN Ok(12 * days_per_month)
    ELSE IF frequency = "4_hourly" THEN Ok(6 * days_per_month)
    ELSE IF frequency = "daily" THEN Ok(days_per_month)
    ELSE IF frequency = "weekly" THEN Ok((days_per_month + 6) \div 7)
    ELSE IF frequency = "custom"
         THEN IF custom_runs = None
              THEN Raise("custom_runs_per_month must be set for CUSTOM frequency")
              ELSE Ok(custom_runs[1])
    ELSE Ok(days_per_month)

\* _get_runs_per_month taking 2-hourly as two runs a day
_get_runs_per_month_two_a_day(frequency, days_per_month, custom_runs) ==
    IF frequency = "hourly" THEN Ok(24 * days_per_month)
    ELSE IF frequency = "2_hourly" THEN Ok(2 * days_per_month)
    ELSE IF frequency = "4_hourly" THEN Ok(6 * days_per_month)
    ELSE IF frequency = "daily" THEN Ok(days_per_month)
    ELSE IF frequency = "weekly" THEN Ok(days_per_month \div 7)
    ELSE IF frequency = "custom"
         THEN IF custom_runs = None
              THEN Raise("custom_runs_per_month must be set for CUSTOM frequency")
              ELSE Ok(custom_runs[1])
    ELSE Ok(days_per_month)

\* _get_runs_per_month falling back to daily when the custom count is missing
_get_runs_per_month_custom_default(frequency, days_per_month, custom_runs) ==
    IF frequency = "hourly" THEN Ok(24 * days_per_month)
    ELSE IF frequency = "2_hourly" THEN Ok(12 * days_per_month)
    ELSE IF frequency = "4_hourly" THEN Ok(6 * days_per_month)
    ELSE IF frequency = "daily" THEN Ok(days_per_month)
    ELSE IF frequency = "weekly" THEN Ok(days_per_month \div 7)
    ELSE IF frequency = "custom"
         THEN IF custom_runs = None
              THEN Ok(days_per_month)
              ELSE Ok(custom_runs[1])
    ELSE Ok(days_per_month)

_get_runs_per_month(frequency, days_per_month, custom_runs) ==
    IF frequency = "hourly" THEN Ok(24 * days_per_month)
    ELSE IF frequency = "2_hourly" THEN Ok(12 * days_per_month)
    ELSE IF frequency = "4_hourly" THEN Ok(6 * days_per_month)
    ELSE IF frequency = "daily" THEN Ok(days_per_month)
    ELSE IF frequency = "weekly" THEN Ok(days_per_month \div 7)
    ELSE IF frequency = "custom"
         THEN IF custom_runs = None
              THEN Raise("custom_runs_per_month must be set for CUSTOM frequency")
              ELSE Ok(custom_runs[1])
    ELSE Ok(days_per_month)

\* _calculate_input_tokens reading a missing previous output as 0 tokens
_calculate_input_tokens_lenient(strategy, fixed_tokens, percent, previous_output) ==
    IF strategy = "from_prompt"
    THEN Ok(IF fixed_tokens = None \/ fixed_tokens = Some(0) THEN 150 ELSE fixed_tokens[1])
    ELSE IF strategy = "fixed"
    THEN Ok(IF fixed_tokens = None THEN 0 ELSE fixed_tokens[1])
    ELSE IF strategy = "from_previous_output"
    THEN Ok(IF previous_output = None THEN 0 ELSE previous_output[1])
    ELSE IF strategy = "percent_of_previous_output"
    THEN IF percent = None
         THEN Raise("percent_of_previous must be set for PERCENT_OF_PREVIOUS_OUTPUT")
         ELSE Ok(IF previous_output = None THEN 0
                 ELSE IntTrunc(previous_output[1] * percent[1], 100))
    ELSE Ok(0)

\* _calculate_input_tokens reading a missing percentage as the whole output
_calculate_input_tokens_full_percent(strategy, fixed_tokens, percent, previous_output) ==
    IF strategy = "from_prompt"
    THEN Ok(IF fixed_tokens = None \/ fixed_tokens = Some(0) THEN 150 ELSE fixed_tokens[1])
    ELSE IF strategy = "fixed"
    THEN Ok(IF fixed_tokens = None THEN 0 ELSE fixed_tokens[1])
    ELSE IF strategy = "from_previous_output"
    THEN IF previous_output = None
         THEN Raise("Cannot use FROM_PREVIOUS_OUTPUT for first step")
         ELSE Ok(previous_output[1])
    ELSE IF strategy = "percent_of_previous_output"
    THEN IF previous_output = None
         THEN Raise("Cannot use PERCENT_OF_PREVIOUS_OUTPUT for first step")
         ELSE Ok(IntTrunc(previous_output[1] * (IF percent = None THEN 100 ELSE percent[1]),
                          100))
    ELSE Ok(0)

\* _calculate_input_tokens resolving from_prompt exactly as fixed
_calculate_input_tokens_prompt_as_fixed(strategy, fixed_tokens, percent, previous_output) ==
    IF strategy \in {"from_prompt", "fixed"}
    THEN Ok(IF fixed_tokens = None THEN 0 ELSE fixed_tokens[1])
    ELSE IF strategy = "from_previous_output"
    THEN IF previous_output = None
         THEN Raise("Cannot use FROM_PREVIOUS_OUTPUT for first step")
         ELSE Ok(previous_output[1])
    ELSE IF strategy = "percent_of_previous_output"
    THEN IF previous_output = None
         THEN Raise("Cannot use PERCENT_OF_PREVIOUS_OUTPUT for first step")
         ELSE IF percent = None
         THEN Raise("percent_of_previous must be set for PERCENT_OF_PREVIOUS_OUTPUT")
         ELSE Ok(IntTrunc(previous_output[1] * percent[1], 100))
    ELSE Ok(0)

\* percent is in hundredths: 50 stands for 0.5
_calculate_input_tokens(strategy, fixed_tokens, percent, previous_output) ==
    IF strategy = "from_prompt"
    THEN Ok(IF fixed_tokens = None \/ fixed_tokens = Some(0) THEN 150 ELSE fixed_tokens[1])
    ELSE IF strategy = "fixed"
    THEN Ok(IF fixed_tokens = None THEN 0 ELSE fixed_tokens[1])
    ELSE IF strategy = "from_previous_output"
    THEN IF previous_output = None
         THEN Raise("Cannot use FROM_PREVIOUS_OUTPUT for first step")
         ELSE Ok(previous_output[1])
    ELSE IF strategy = "percent_of_previous_output"
    THEN IF previous_output = None
         THEN Raise("Cannot use PERCENT_OF_PREVIOUS_OUTPUT for first step")
         ELSE IF percent = None
         THEN Raise("percent_of_previous must be set for PERCENT_OF_PREVIOUS_OUTPUT")
         ELSE Ok(IntTrunc(previous_output[1] * percent[1], 100))
    ELSE Ok(0)

\* overrides.get(field, default)
OverrideGet(overrides, field, default) ==
    IF field \in DOMAIN overrides THEN overrides[field] ELSE default

\* _calculate_single_call charging a model without a price 1 USD per million
_calculate_single_call_default(model_id, input_tokens, output_tokens, use_cached, overrides) ==
    IF model_id \notin DOMAIN prices THEN input_tokens + output_tokens
    ELSE LET price == prices[model_id]
             input_price ==
                 IF use_cached /\ price.input_cached_per_million # None
                 THEN OverrideGet(overrides, "input_cached_per_million",
                                  price.input_cached_per_million[1])
                 ELSE OverrideGet(overrides, "input_per_million",
                                  price.input_per_million)
             output_price ==
                 OverrideGet(overrides, "output_per_million", price.output_per_million)
         IN  input_tokens * input_price + output_tokens * output_price

\* _calculate_single_call with the two prices exchanged
_calculate_single_call_swapped(model_id, input_tokens, output_tokens, use_cached, overrides) ==
    IF model_id \notin DOMAIN prices THEN 0
    ELSE input_tokens * prices[model_id].output_per_million
         + output_tokens * prices[model_id].input_per_million

\* the cost of one call, in micro-dollars
_calculate_single_call(model_id, input_tokens, output_tokens, use_cached, overrides) ==
    IF model_id \notin DOMAIN prices THEN 0
    ELSE LET price == prices[model_id]
             input_price ==
                 IF use_cached /\ price.input_cached_per_million # None
                 THEN OverrideGet(overrides, "input_cached_per_million",
                                  price.input_cached_per_million[1])
                 ELSE OverrideGet(overrides, "input_per_million",
                                  price.input_per_million)
             output_price ==
                 OverrideGet(overrides, "output_per_million", price.output_per_million)
         IN  input_tokens * input_price + output_tokens * output_price

\* price_overrides.get(model_id, {})
OverridesFor(price_overrides, model_id) ==
    IF model_id \in DOMAIN price_overrides
    THEN price_overrides[model_id] ELSE [f \in {} |-> 0]

\* the loop of lines 178-196 over models_for_step
RECURSIVE FlowStepLoop(_, _, _, _, _, _)
FlowStepLoop(models_for_step, step, input_tokens, prompts, runs, price_overrides) ==
    IF models_for_step = <<>> THEN [total_cost |-> 0, by_model |-> <<>>]
    ELSE LET n == Len(models_for_step)
             before == FlowStepLoop(SubSeq(models_for_step, 1, n - 1), step,
                                    input_tokens, prompts, runs, price_overrides)
             model_id == models_for_step[n]
             model_cost == _calculate_single_call(model_id, input_tokens,
                               step.expected_output_tokens, step.use_cached_input,
                               OverridesFor(price_overrides, model_id))
             total_model_cost == model_cost * prompts * runs * step.runs_per_prompt
         IN  [total_cost |-> before.total_cost + total_model_cost,
              by_model |-> DictSet(before.by_model, model_id, total_model_cost)]

\* StepPrompts without the fan-out of a specific-model step
StepPrompts_unscaled(step, models, prompts) == prompts

\* the prompt count a step charges for (lines 167-175)
StepPrompts(step, models, prompts) ==
    IF step.uses_model = "current" THEN prompts ELSE prompts * Len(models)

_calculate_flow_step(step, models, prompts, runs, previous_output, price_overrides) ==
    LET it == _calculate_input_tokens(step.input_tokens_strategy,
                  step.fixed_input_tokens, step.percent_of_previous, previous_output)
        models_for_step ==
            IF step.uses_model = "current" THEN models ELSE <<step.uses_model>>
        step_prompts == StepPrompts(step, models, prompts)
        loop == FlowStepLoop(models_for_step, step, it.val, step_prompts, runs,
                             price_overrides)
    IN  IF it.err # "" THEN [err |-> it.err]
        ELSE [err |-> "",
              total_cost |-> loop.total_cost,
              by_model |-> loop.by_model,
              input_tokens |-> it.val,
              models_for_step |-> models_for_step,
              total_prompts |-> step_prompts]

\* NextPreviousOutput carrying a step's output only when the step ran on the
\* models under test
NextPreviousOutput_if_current(step, previous) ==
    IF step.uses_model = "current" THEN Some(step.expected_output_tokens) ELSE previous

\* line 124: previous_output_tokens = step.expected_output_tokens
NextPreviousOutput(step, previous) == Some(step.expected_output_tokens)

\* PromptsAfterStep when the step's prompt count leaks back into the group
PromptsAfterStep_persist(group_prompts, step_prompts) == step_prompts

\* lines 107, 117 and 175: _calculate_flow_step rebinds its own parameter, the
\* total_prompts of _calculate_intent_group keeps the value of line 107
PromptsAfterStep(group_prompts, step_prompts) == group_prompts

\* GroupCalls counting a specific-model step once instead of once per model
RECURSIVE GroupCalls_by_selector(_, _, _, _)
GroupCalls_by_selector(steps, models, prompts, runs) ==
    IF steps = <<>> THEN 0
    ELSE (IF steps[1].uses_model = "current" THEN Len(models) ELSE 1)
         * prompts * runs * steps[1].runs_per_prompt
         + GroupCalls_by_selector(Tail(steps), models, prompts, runs)

\* line 134: the call count of a group
RECURSIVE GroupCalls(_, _, _, _)
GroupCalls(steps, models, prompts, runs) ==
    IF steps = <<>> THEN 0
    ELSE Len(models) * prompts * runs * steps[1].runs_per_prompt
         + GroupCalls(Tail(steps), models, prompts, runs)

\* max(price.updated_at for price in self.prices.values())
\* LatestUpdate picking the oldest entry
LatestUpdate_oldest == CHOOSE t \in {prices[m].updated_at : m \in DOMAIN prices} :
                           \A m \in DOMAIN prices : t <= prices[m].updated_at

\* max(price.updated_at for price in self.prices.values())
LatestUpdate == CHOOSE t \in {prices[m].updated_at : m \in DOMAIN prices} :
                    \A m \in DOMAIN prices : prices[m].updated_at <= t

_get_price_metadata ==
    IF DOMAIN prices = {}
    THEN [price_source_updated_at |-> "unknown", models_count |-> None]
    ELSE [price_source_updated_at |-> ToString(LatestUpdate),
          models_count |-> Some(ToString(Cardinality(DOMAIN prices)))]

\* lines 74-75: [{key: k, "cost_usd": round(cost, 2)} for k, cost in d.items()]
\* round() is a function of the float it is given, and that float is fixed by
\* the price table, the scenario and the figure computed: a half-cent figure
\* that has been rounded before is rounded the same way again
TieKey(figure, x) ==
    [prices |-> prices, scenario |-> scenario, figure |-> figure, value |-> x]

Round2At(figure, x) ==
    LET known == {t \in ties : t.key = TieKey(figure, x)}
    IN  IF known # {} THEN {t.rounded : t \in known} ELSE Round2(x)

RECURSIVE RoundedList(_, _)
RoundedList(kind, d) ==
    IF d = <<>> THEN {<<>>}
    ELSE LET n == Len(d)
         IN  {Append(front, [k |-> d[n].k, cost_usd |-> c]) :
                 front \in RoundedList(kind, SubSeq(d, 1, n - 1)),
                 c \in Round2At(<<kind, n>>, d[n].v)}

\* the half-cent figures of a returned result, with the way each was rounded
NewTies(total, by_model_list, by_step_list) ==
    {[key |-> TieKey(<<"total", 0>>, x), rounded |-> total] :
        x \in {y \in {total_cost} : HalfCent(y)}}
    \cup {[key |-> TieKey(<<"by_model", j>>, by_model[j].v),
           rounded |-> by_model_list[j].cost_usd] :
               j \in {i \in 1..Len(by_model) : HalfCent(by_model[i].v)}}
    \cup {[key |-> TieKey(<<"by_step", j>>, by_step[j].v),
           rounded |-> by_step_list[j].cost_usd] :
               j \in {i \in 1..Len(by_step) : HalfCent(by_step[i].v)}}

----------------------------------------------------------------------------
(* Inputs: the price table and the scenarios explored *)

\* model id -> ModelPrice (prices in USD per million tokens, updated_at a day number)
PriceTable ==
    [m \in {"m1", "m2", "judge"} |->
        IF m = "m1"
        THEN [input_per_million |-> 1, output_per_million |-> 2,
              input_cached_per_million |-> None, updated_at |-> 11]
        ELSE IF m = "m2"
        THEN [input_per_million |-> 3, output_per_million |-> 5,
              input_cached_per_million |-> Some(1), updated_at |-> 12]
        ELSE [input_per_million |-> 1, output_per_million |-> 1,
              input_cached_per_million |-> None, updated_at |-> 10]]

\* ids a scenario may track; "ghost" has no price
TrackedIds == {"m1", "m2", "ghost"}

RECURSIVE SeqsUpTo(_, _)
SeqsUpTo(S, n) ==
    IF n = 0 THEN {<<>>}
    ELSE LET shorter == SeqsUpTo(S, n - 1)
         IN  shorter \cup {Append(q, x) : q \in shorter, x \in S}

ModelLists == SeqsUpTo(TrackedIds, MaxModels)

FlowStep(name, uses_model, strategy, fixed, percent, output, runs, cached) ==
    [name |-> name, uses_model |-> uses_model, input_tokens_strategy |-> strategy,
     fixed_input_tokens |-> fixed, percent_of_previous |-> percent,
     expected_output_tokens |-> output, runs_per_prompt |-> runs,
     use_cached_input |-> cached]

AnswerStep == FlowStep("answer", "current", "fixed", Some(100), None, 50, 1, FALSE)

PromptStep == FlowStep("answer", "current", "from_prompt", None, None, 200, 1, TRUE)

ExtractStep == FlowStep("extract", "judge", "from_previous_output", None, None, 30, 2, FALSE)

JudgeStep == FlowStep("judge", "m1", "percent_of_previous_output", None, Some(50), 20, 1, FALSE)

ClassifyStep == FlowStep("classify", "ghost", "fixed", Some(40), None, 10, 1, FALSE)

StepSet == {AnswerStep, PromptStep, ExtractStep, JudgeStep, ClassifyStep}

\* further steps for the input-token strategies.  Percentages are multiples of
\* a quarter, for which the float product of line 226 is exact.
ZeroPromptStep == FlowStep("answer", "current", "from_prompt", Some(0), None, 7, 2, FALSE)

SizedPromptStep == FlowStep("answer", "current", "from_prompt", Some(100), None, 50, 1, FALSE)

UnsetFixedStep == FlowStep("answer", "current", "fixed", None, None, 30, 1, FALSE)

ZeroFixedStep == FlowStep("route", "judge", "fixed", Some(0), None, 200, 1, FALSE)

QuarterStep ==
    FlowStep("judge", "current", "percent_of_previous_output", None, Some(25), 20, 1, FALSE)

NoPercentStep ==
    FlowStep("judge", "judge", "percent_of_previous_output", None, None, 20, 1, FALSE)

ZeroPercentStep ==
    FlowStep("judge", "judge", "percent_of_previous_output", None, Some(0), 20, 1, FALSE)

OverPercentStep ==
    FlowStep("judge", "ghost", "percent_of_previous_output", Some(9), Some(150), 20, 1, FALSE)

FirstSteps ==
    {AnswerStep, PromptStep, ClassifyStep, ZeroPromptStep, SizedPromptStep,
     UnsetFixedStep, ZeroFixedStep}

LaterSteps ==
    {ExtractStep, JudgeStep, QuarterStep, NoPercentStep, ZeroPercentStep,
     OverPercentStep, PromptStep, UnsetFixedStep}

Frequencies == {"hourly", "2_hourly", "4_hourly", "daily", "weekly", "custom"}

IntentGroup(name, intents, variants, frequency, steps, custom) ==
    [name |-> name, intents_count |-> intents, variants_per_intent |-> variants,
     frequency |-> frequency, flow_steps |-> steps, custom_runs_per_month |-> custom]

NoOverrides == [m \in {} |-> 0]

Scenario(models, groups, days, overrides) ==
    [models |-> models, intent_groups |-> groups, days_per_month |-> days,
     price_overrides |-> overrides]

\* one group, every pipeline of up to MaxSteps steps
NoRepeat(q) == \A i, j \in 1..Len(q) : q[i] = q[j] => i = j

\* model list, frequency with custom runs, steps: a list with a repeated model
\* and a pipeline with a repeated step are explored on the daily frequency,
\* not both at once; the other frequencies take lists without repetition
PipelineShapes ==
    {p \in ModelLists
           \X {<<"daily", None>>, <<"weekly", None>>, <<"custom", Some(5)>>}
           \X SeqsUpTo(StepSet, MaxSteps) :
        IF p[2][1] = "daily" THEN NoRepeat(p[1]) \/ NoRepeat(p[3])
        ELSE NoRepeat(p[1]) /\ NoRepeat(p[3])}

PipelineScenarios ==
    {Scenario(p[1], <<IntentGroup("main", 10, 2, p[2][1], p[3], p[2][2])>>, 30,
              NoOverrides) : p \in PipelineShapes}

DaysSet == {0, 5, 30}

\* one group, every frequency, with and without a custom run count
FrequencyScenarios ==
    {Scenario(ms, <<IntentGroup("main", 10, 2, f, steps, c)>>, d, NoOverrides) :
        ms \in {<<>>, <<"m1">>, <<"m1", "m2">>},
        f \in Frequencies, c \in {None, Some(5)},
        steps \in {<<AnswerStep>>, <<PromptStep, JudgeStep>>},
        d \in DaysSet}

\* one group of one or two steps, over the input-token strategies
TokenScenarios ==
    {Scenario(ms, <<IntentGroup("main", 10, 2, "daily", steps, None)>>, 30, NoOverrides) :
        ms \in {<<"m1">>, <<"m1", "ghost">>},
        steps \in {<<a>> : a \in FirstSteps}
                  \cup {<<a, b>> : a \in FirstSteps, b \in LaterSteps}}

\* up to MaxGroups groups of one step each
SmallGroups ==
    {IntentGroup(n, 1, 1, "weekly", <<st>>, None) :
        n \in {"main", "extra"}, st \in {AnswerStep, ExtractStep, ClassifyStep}}
    \cup {IntentGroup(n, 1, 1, "custom", <<AnswerStep>>, None) : n \in {"main", "extra"}}

\* the month lengths other than 30 days go with the single model
GroupShapes ==
    {p \in {<<>>, <<"m1">>, <<"m1", "ghost">>, <<"m1", "m1">>}
           \X SeqsUpTo(SmallGroups, MaxGroups) \X DaysSet :
        p[3] = 30 \/ p[1] = <<"m1">>}

GroupScenarios ==
    {Scenario(p[1], p[2], p[3], NoOverrides) : p \in GroupShapes}

\* price overrides and cached input
OverrideSet ==
    {NoOverrides,
     [m \in {"m1"} |-> [f \in {"input_per_million"} |-> 4]],
     [m \in {"m2"} |-> [f \in {"output_per_million", "input_cached_per_million"} |->
                            IF f = "output_per_million" THEN 7 ELSE 2]],
     [m \in {"m1"} |-> [f \in {"input_cached_per_million"} |-> 0]],
     [m \in {"ghost"} |-> [f \in {"input_per_million"} |-> 4]]}

OverridesOfM2 ==
    [m \in {"m2"} |->
        [f \in {"output_per_million", "input_cached_per_million"} |->
            IF f = "output_per_million" THEN 7 ELSE 2]]

PricingScenarios ==
    {Scenario(ms, <<IntentGroup("main", 10, 2, "daily", <<st>>, None)>>, 30, ov) :
        ms \in SeqsUpTo({"m1", "m2"}, 2) \cup {<<"m1", "ghost">>},
        st \in {AnswerStep, PromptStep},
        ov \in OverrideSet}

Scenarios ==
    PipelineScenarios \cup FrequencyScenarios \cup TokenScenarios
    \cup GroupScenarios \cup PricingScenarios

\* the scenarios shown on the dashboard's cost analysis tab
SweepGroups ==
    {IntentGroup("main", 10, 2, "daily", <<AnswerStep>>, None),
     IntentGroup("main", 1, 1, "weekly", <<AnswerStep, ExtractStep>>, None),
     IntentGroup("extra", 1, 1, "custom", <<PromptStep>>, Some(5)),
     IntentGroup("extra", 1, 1, "custom", <<AnswerStep>>, None),
     IntentGroup("extra", 10, 2, "hourly", <<ExtractStep>>, None)}

SweepScenarios ==
    {Scenario(ms, gs, d, ov) :
        ms \in SeqsUpTo({"m1", "ghost"}, 2), gs \in SeqsUpTo(SweepGroups, MaxGroups),
        d \in DaysSet,
        ov \in {NoOverrides, [m \in {"m1"} |-> [f \in {"input_per_million"} |-> 4]]}}

----------------------------------------------------------------------------
(* calculate_scenario, one action per loop iteration *)

Group == scenario.intent_groups[gi]

Step == Group.flow_steps[si]

\* the hour a run starts at, and the hours the clock advances by
StartHour == 24

HoursPerTick == 12

\* simulator.py lines 15-18
NewSimulator == [prices |-> None, calculator |-> None, running |-> "none"]

\* the locals of a calculation
calc_locals == <<gi, si, total_cost, total_calls, total_input_tokens,
                 total_output_tokens, by_model, by_intent_group, by_step,
                 runs_per_month, total_prompts, previous_output_tokens,
                 group_total_cost, group_by_model, group_by_step, step_log>>

\* no report, no cache, no overrides file, no Simulator call
NoFrontEnd ==
    /\ report = None
    /\ now = StartHour
    /\ cache = None
    /\ overrides_file = None
    /\ fetched = None
    /\ call_count = 0
    /\ sim = NewSimulator
    /\ parked = None
    /\ tid = 1
    /\ alone = <<>>

\* the state before calculate_scenario is called on one of the given scenarios
InitFor(tables, path_lists) ==
    /\ prices \in tables
    /\ paths \in path_lists
    /\ scenario = paths[1]
    /\ pc = "call"
    /\ gi = 0
    /\ si = 0
    /\ total_cost = 0
    /\ total_calls = 0
    /\ total_input_tokens = 0
    /\ total_output_tokens = 0
    /\ by_model = <<>>
    /\ by_intent_group = <<>>
    /\ by_step = <<>>
    /\ runs_per_month = 0
    /\ total_prompts = 0
    /\ previous_output_tokens = None
    /\ group_total_cost = 0
    /\ group_by_model = <<>>
    /\ group_by_step = <<>>
    /\ step_log = <<>>
    /\ result = None
    /\ raised = None
    /\ ui_scenario = scenario
    /\ freq_i = 0
    /\ freq_results = <<>>
    /\ ties = {}
    /\ results = <<>>
    /\ NoFrontEnd

\* a calculator on the reference price table
InitWith(path_lists) == InitFor({PriceTable}, path_lists)

\* one call of calculate_scenario
InitOn(scenarios) == InitWith({<<s>> : s \in scenarios})

Init == InitOn(Scenarios)

\* Begin with a step breakdown that lives on between calls
Begin_stale ==
    /\ pc = "call"
    /\ pc' = "groups"
    /\ gi' = 1
    /\ total_cost' = 0
    /\ total_calls' = 0
    /\ total_input_tokens' = 0
    /\ total_output_tokens' = 0
    /\ by_model' = ZeroDict(scenario.models)
    /\ by_intent_group' = <<>>
    /\ by_step' = by_step
    /\ step_log' = <<>>
    /\ result' = None
    /\ raised' = None
    /\ UNCHANGED <<prices, scenario, si, runs_per_month, total_prompts,
                   previous_output_tokens, group_total_cost, group_by_model,
                   group_by_step, ties, ui_vars>>

\* lines 38-45
Begin ==
    /\ pc = "call"
    /\ pc' = "groups"
    /\ gi' = 1
    /\ total_cost' = 0
    /\ total_calls' = 0
    /\ total_input_tokens' = 0
    /\ total_output_tokens' = 0
    /\ by_model' = ZeroDict(scenario.models)
    /\ by_intent_group' = <<>>
    /\ by_step' = <<>>
    /\ step_log' = <<>>
    /\ result' = None
    /\ raised' = None
    /\ UNCHANGED <<prices, scenario, si, runs_per_month, total_prompts,
                   previous_output_tokens, group_total_cost, group_by_model,
                   group_by_step, ties, ui_vars>>

GroupRuns == _get_runs_per_month(Group.frequency, scenario.days_per_month,
                                 Group.custom_runs_per_month)

\* lines 48-50 and 99-110: enter _calculate_intent_group for the next group
EnterGroup ==
    /\ pc = "groups"
    /\ gi <= Len(scenario.intent_groups)
    /\ GroupRuns.err = ""
    /\ pc' = "steps"
    /\ si' = 1
    /\ group_total_cost' = 0
    /\ group_by_model' = ZeroDict(scenario.models)
    /\ group_by_step' = <<>>
    /\ runs_per_month' = GroupRuns.val
    /\ total_prompts' = Group.intents_count * Group.variants_per_intent
    /\ previous_output_tokens' = None
    /\ UNCHANGED <<prices, scenario, gi, total_cost, total_calls, total_input_tokens,
                   total_output_tokens, by_model, by_intent_group, by_step,
                   step_log, result, raised, ties, ui_vars>>

\* line 279 raises; the exception leaves calculate_scenario
EnterGroupRaises ==
    /\ pc = "groups"
    /\ gi <= Len(scenario.intent_groups)
    /\ GroupRuns.err # ""
    /\ pc' = "raised"
    /\ raised' = Some(GroupRuns.err)
    /\ UNCHANGED <<prices, scenario, gi, si, total_cost, total_calls,
                   total_input_tokens, total_output_tokens, by_model,
                   by_intent_group, by_step, runs_per_month, total_prompts,
                   previous_output_tokens, group_total_cost, group_by_model,
                   group_by_step, step_log, result, ties, ui_vars>>

StepResult == _calculate_flow_step(Step, scenario.models, total_prompts,
                                   runs_per_month, previous_output_tokens,
                                   scenario.price_overrides)

\* CalculateFlowStep adding the model a step names to the list it was given
CalculateFlowStep_aliasing ==
    /\ pc = "steps"
    /\ si <= Len(Group.flow_steps)
    /\ StepResult.err = ""
    /\ group_total_cost' = group_total_cost + StepResult.total_cost
    /\ previous_output_tokens' = NextPreviousOutput(Step, previous_output_tokens)
    /\ group_by_model' = DictAddAll(group_by_model, StepResult.by_model)
    /\ group_by_step' = AddTo(group_by_step, Step.name, StepResult.total_cost)
    /\ step_log' = Append(step_log,
                        [group |-> gi, step |-> si,
                         input_tokens |-> StepResult.input_tokens,
                         models_for_step |-> StepResult.models_for_step,
                         total_prompts |-> StepResult.total_prompts,
                         total_cost |-> StepResult.total_cost,
                         by_model |-> StepResult.by_model])
    /\ total_prompts' = PromptsAfterStep(total_prompts, StepResult.total_prompts)
    /\ si' = si + 1
    /\ scenario' = IF Step.uses_model = "current" THEN scenario
                   ELSE [scenario EXCEPT !.models = Append(@, Step.uses_model)]
    /\ UNCHANGED <<prices, pc, gi, total_cost, total_calls,
                   total_input_tokens, total_output_tokens, by_model,
                   by_intent_group, by_step, runs_per_month, result, raised,
                   ties, ui_vars>>

\* lines 113-131: one iteration of the loop over flow steps
CalculateFlowStep ==
    /\ pc = "steps"
    /\ si <= Len(Group.flow_steps)
    /\ StepResult.err = ""
    /\ group_total_cost' = group_total_cost + StepResult.total_cost
    /\ previous_output_tokens' = NextPreviousOutput(Step, previous_output_tokens)
    /\ group_by_model' = DictAddAll(group_by_model, StepResult.by_model)
    /\ group_by_step' = AddTo(group_by_step, Step.name, StepResult.total_cost)
    /\ step_log' = Append(step_log,
                        [group |-> gi, step |-> si,
                         input_tokens |-> StepResult.input_tokens,
                         models_for_step |-> StepResult.models_for_step,
                         total_prompts |-> StepResult.total_prompts,
                         total_cost |-> StepResult.total_cost,
                         by_model |-> StepResult.by_model])
    /\ total_prompts' = PromptsAfterStep(total_prompts, StepResult.total_prompts)
    /\ si' = si + 1
    /\ UNCHANGED <<prices, scenario, pc, gi, total_cost, total_calls,
                   total_input_tokens, total_output_tokens, by_model,
                   by_intent_group, by_step, runs_per_month, result, raised,
                   ties, ui_vars>>

\* lines 218, 223, 225 raise; the exception leaves calculate_scenario
CalculateFlowStepRaises ==
    /\ pc = "steps"
    /\ si <= Len(Group.flow_steps)
    /\ StepResult.err # ""
    /\ pc' = "raised"
    /\ raised' = Some(StepResult.err)
    /\ UNCHANGED <<prices, scenario, gi, si, total_cost, total_calls,
                   total_input_tokens, total_output_tokens, by_model,
                   by_intent_group, by_step, runs_per_month, total_prompts,
                   previous_output_tokens, group_total_cost, group_by_model,
                   group_by_step, step_log, result, ties, ui_vars>>

\* LeaveGroup adding up the tokens of the calls of the group
LeaveGroup_counting_tokens ==
    /\ pc = "steps"
    /\ si > Len(Group.flow_steps)
    /\ LET calls == GroupCalls(Group.flow_steps, scenario.models, total_prompts,
                               runs_per_month)
           mine == SelectSeq(step_log, LAMBDA e : e.group = gi)
           volume(e) == e.total_prompts * runs_per_month * Len(e.models_for_step)
                        * Group.flow_steps[e.step].runs_per_prompt
           tokens_in == SumSeq([i \in 1..Len(mine) |->
                                  mine[i].input_tokens * volume(mine[i])])
           tokens_out == SumSeq([i \in 1..Len(mine) |->
                                   Group.flow_steps[mine[i].step].expected_output_tokens
                                   * volume(mine[i])])
       IN  /\ by_intent_group' = Append(by_intent_group,
                                      [name |-> Group.name,
                                       cost_usd |-> group_total_cost,
                                       calls |-> calls,
                                       input_tokens |-> tokens_in,
                                       output_tokens |-> tokens_out])
           /\ total_calls' = total_calls + calls
           /\ total_input_tokens' = total_input_tokens + tokens_in
           /\ total_output_tokens' = total_output_tokens + tokens_out
    /\ total_cost' = total_cost + group_total_cost
    /\ by_model' = DictAddAll(by_model, group_by_model)
    /\ by_step' = DictAddAll(by_step, group_by_step)
    /\ gi' = gi + 1
    /\ pc' = "groups"
    /\ UNCHANGED <<prices, scenario, si, runs_per_month, total_prompts,
                   previous_output_tokens, group_total_cost, group_by_model,
                   group_by_step, step_log, result, raised, ties, ui_vars>>

\* lines 133-141 and 53-71: the group is done, fold it into the scenario totals
LeaveGroup ==
    /\ pc = "steps"
    /\ si > Len(Group.flow_steps)
    /\ LET calls == GroupCalls(Group.flow_steps, scenario.models, total_prompts,
                               runs_per_month)
       IN  /\ by_intent_group' = Append(by_intent_group,
                                      [name |-> Group.name,
                                       cost_usd |-> group_total_cost,
                                       calls |-> calls,
                                       input_tokens |-> 0,
                                       output_tokens |-> 0])
           /\ total_calls' = total_calls + calls
    /\ total_cost' = total_cost + group_total_cost
    /\ total_input_tokens' = total_input_tokens + 0
    /\ total_output_tokens' = total_output_tokens + 0
    /\ by_model' = DictAddAll(by_model, group_by_model)
    /\ by_step' = DictAddAll(by_step, group_by_step)
    /\ gi' = gi + 1
    /\ pc' = "groups"
    /\ UNCHANGED <<prices, scenario, si, runs_per_month, total_prompts,
                   previous_output_tokens, group_total_cost, group_by_model,
                   group_by_step, step_log, result, raised, ties, ui_vars>>

\* lines 73-89
Return ==
    /\ pc = "groups"
    /\ gi > Len(scenario.intent_groups)
    /\ \E by_model_list \in RoundedList("by_model", by_model),
          by_step_list \in RoundedList("by_step", by_step),
          total \in Round2At(<<"total", 0>>, total_cost) :
            /\ ties' = ties \cup NewTies(total, by_model_list, by_step_list)
            /\ result' = Some([total_monthly_cost_usd |-> total,
                               by_model |-> by_model_list,
                               by_intent_group |-> by_intent_group,
                               by_step |-> by_step_list,
                               total_calls_per_month |-> total_calls,
                               total_input_tokens_per_month |-> total_input_tokens,
                               total_output_tokens_per_month |-> total_output_tokens,
                               meta |-> _get_price_metadata])
    /\ pc' = "returned"
    /\ UNCHANGED <<prices, scenario, gi, si, total_cost, total_calls,
                   total_input_tokens, total_output_tokens, by_model,
                   by_intent_group, by_step, runs_per_month, total_prompts,
                   previous_output_tokens, group_total_cost, group_by_model,
                   group_by_step, step_log, raised, ui_vars>>

Next ==
    \/ Begin
    \/ EnterGroup
    \/ EnterGroupRaises
    \/ CalculateFlowStep
    \/ CalculateFlowStepRaises
    \/ LeaveGroup
    \/ Return

Spec == Init /\ [][Next]_vars

----------------------------------------------------------------------------
(* The dashboard's cost analysis tab: the scenario's own calculation (line   *)
(* 457), then the frequency impact analysis (lines 540-566)                  *)

FrequencyOrder == <<"hourly", "2_hourly", "4_hourly", "daily", "weekly">>

\* lines 543-559
TestScenario(s, freq) ==
    Scenario(s.models,
             [i \in 1..Len(s.intent_groups) |->
                 IntentGroup(s.intent_groups[i].name,
                             s.intent_groups[i].intents_count,
                             s.intent_groups[i].variants_per_intent,
                             freq,
                             s.intent_groups[i].flow_steps,
                             None)],
             s.days_per_month,
             NoOverrides)

InitSweep == InitOn(SweepScenarios)

\* lines 542-561: the next frequency's test scenario goes to the calculator
TestScenarioCall ==
    /\ pc = "returned"
    /\ Len(freq_results) = freq_i
    /\ freq_i < Len(FrequencyOrder)
    /\ freq_i' = freq_i + 1
    /\ scenario' = TestScenario(ui_scenario, FrequencyOrder[freq_i + 1])
    /\ pc' = "call"
    /\ UNCHANGED <<prices, gi, si, total_cost, total_calls, total_input_tokens,
                   total_output_tokens, by_model, by_intent_group, by_step,
                   runs_per_month, total_prompts, previous_output_tokens,
                   group_total_cost, group_by_model, group_by_step, step_log,
                   result, raised, ui_scenario, freq_results, ties, paths, results,
                   env_vars>>

\* lines 562-566
RecordFrequency ==
    /\ pc = "returned"
    /\ Len(freq_results) < freq_i
    /\ freq_results' = Append(freq_results,
                              [frequency |-> FrequencyOrder[freq_i],
                               cost |-> result[1].total_monthly_cost_usd,
                               calls |-> result[1].total_calls_per_month])
    /\ UNCHANGED <<prices, scenario, calc_vars, ui_scenario, freq_i, ties, paths,
                   results, env_vars>>

NextSweep ==
    \/ Next
    \/ TestScenarioCall
    \/ RecordFrequency

SpecSweep == InitSweep /\ [][NextSweep]_vars

----------------------------------------------------------------------------
(* Simulator.compare_scenarios: several scenarios through one calculator *)

\* the scenarios of the files compared: a half-cent total, the plain daily
\* scenario, two groups, an unpriced model, and the two kinds of raise
CompareScenarios ==
    {Scenario(<<"m1">>, <<IntentGroup("main", 5, 1, "custom", <<AnswerStep>>, Some(5))>>,
              30, NoOverrides),
     Scenario(<<"m1">>, <<IntentGroup("main", 10, 2, "daily", <<AnswerStep>>, None)>>,
              30, NoOverrides),
     Scenario(<<"m1", "m2">>,
              <<IntentGroup("main", 10, 2, "weekly", <<AnswerStep, JudgeStep>>, None),
                IntentGroup("extra", 1, 1, "daily", <<PromptStep>>, None)>>,
              30, NoOverrides),
     Scenario(<<"m2", "ghost">>,
              <<IntentGroup("main", 10, 2, "daily", <<PromptStep, ExtractStep>>, None)>>,
              30, OverridesOfM2),
     Scenario(<<"m1">>, <<IntentGroup("main", 10, 2, "daily", <<ExtractStep>>, None)>>,
              30, NoOverrides),
     Scenario(<<"m1">>, <<IntentGroup("main", 10, 2, "custom", <<AnswerStep>>, None)>>,
              30, NoOverrides)}

\* calculators on other price tables: none, one entry, entries updated on the
\* same day, the reference table, and one whose first entry is the latest
EmptyTable == [m \in {} |-> 0]

PriceTables ==
    {EmptyTable,
     [m \in {"m1"} |-> PriceTable["m1"]],
     [m \in {"m1", "judge"} |-> [PriceTable[m] EXCEPT !.updated_at = 10]],
     PriceTable,
     [m \in {"judge", "m1", "m2", "m3"} |->
         IF m = "m3" THEN PriceTable["m2"]
         ELSE [PriceTable[m] EXCEPT !.updated_at = IF m = "judge" THEN 14 ELSE 9]]}

InitTables == InitFor(PriceTables, {<<s>> : s \in CompareScenarios})

SpecTables == InitTables /\ [][Next]_vars

PathLists == SeqsUpTo(CompareScenarios, MaxPaths) \ {<<>>}

InitCompare == InitWith(PathLists)

\* lines 99-103: the result is appended (the scenario stands for its name) and
\* the loop loads and runs the next path, or ends
CompareNext ==
    /\ pc = "returned"
    /\ Len(results) < Len(paths)
    /\ results' = Append(results, [scenario |-> scenario, result |-> result[1]])
    /\ IF Len(results) + 1 < Len(paths)
       THEN scenario' = paths[Len(results) + 2] /\ pc' = "call"
       ELSE scenario' = scenario /\ pc' = "compared"
    /\ UNCHANGED <<prices, gi, si, total_cost, total_calls, total_input_tokens,
                   total_output_tokens, by_model, by_intent_group, by_step,
                   runs_per_month, total_prompts, previous_output_tokens,
                   group_total_cost, group_by_model, group_by_step, step_log,
                   result, raised, ui_scenario, freq_i, freq_results, ties, paths,
                   env_vars>>

NextCompare ==
    \/ Next
    \/ CompareNext

SpecCompare == InitCompare /\ [][NextCompare]_vars

----------------------------------------------------------------------------
(* Reporter: the text, markdown and JSON reports of run_simulation *)

\* the output formats of --output
Formats == {"text", "json", "markdown"}

\* InsertDesc putting every row last
InsertDesc_last(rows, x) == Append(rows, x)

\* one step of sorted(..., key=cost, reverse=True), which is stable: x goes
\* behind the rows that cost as much or more
InsertDesc(rows, x) ==
    LET ahead == Cardinality({i \in 1..Len(rows) : rows[i].cost_usd >= x.cost_usd})
    IN  SubSeq(rows, 1, ahead) \o <<x>> \o SubSeq(rows, ahead + 1, Len(rows))

\* sorted(rows, key=lambda x: x["cost_usd"], reverse=True)
RECURSIVE SortDesc(_)
SortDesc(rows) ==
    IF rows = <<>> THEN <<>>
    ELSE InsertDesc(SortDesc(SubSeq(rows, 1, Len(rows) - 1)), rows[Len(rows)])

\* the ways f"{x:,.2f}" can print a sequence of amounts: each to the cent
RECURSIVE Shown(_)
Shown(rows) ==
    IF rows = <<>> THEN {<<>>}
    ELSE LET n == Len(rows)
         IN  {Append(front, [label |-> rows[n].label, cost_usd |-> rows[n].cost_usd,
                             shown |-> c, calls |-> rows[n].calls]) :
                 front \in Shown(SubSeq(rows, 1, n - 1)), c \in Round2(rows[n].cost_usd)}

\* the rows of one breakdown: its label, its cost and, for a group, its calls
Rows(breakdown) ==
    [i \in 1..Len(breakdown) |->
        [label |-> IF "k" \in DOMAIN breakdown[i] THEN breakdown[i].k
                   ELSE breakdown[i].name,
         cost_usd |-> breakdown[i].cost_usd,
         calls |-> IF "calls" \in DOMAIN breakdown[i] THEN Some(breakdown[i].calls)
                   ELSE None]]

\* lines 56-106 and 112-165: the header figures, the three breakdowns sorted by
\* cost, the metadata
Formatted(format, res) ==
    {[format |-> format,
      total |-> res.total_monthly_cost_usd,
      calls |-> res.total_calls_per_month,
      input_tokens |-> res.total_input_tokens_per_month,
      output_tokens |-> res.total_output_tokens_per_month,
      by_model |-> bm, by_intent_group |-> big, by_step |-> bs,
      meta |-> res.meta] :
        bm \in Shown(SortDesc(Rows(res.by_model))),
        big \in Shown(SortDesc(Rows(res.by_intent_group))),
        bs \in Shown(SortDesc(Rows(res.by_step)))}

\* lines 108-110: json.dumps(result.model_dump()), the result as it is
FormattedJson(res) == [format |-> "json", results |-> res]

\* lines 27-32
generate_report(res, format) ==
    IF format = "json" THEN {FormattedJson(res)} ELSE Formatted(format, res)

\* run_simulation.py lines 91-100: one scenario, then its report
GenerateReport ==
    /\ pc = "returned"
    /\ Len(paths) = 1
    /\ \E format \in Formats :
          \E text \in generate_report(result[1], format) :
              report' = Some([kind |-> "report", body |-> text])
    /\ pc' = "reported"
    /\ UNCHANGED <<prices, scenario, gi, si, total_cost, total_calls,
                   total_input_tokens, total_output_tokens, by_model,
                   by_intent_group, by_step, runs_per_month, total_prompts,
                   previous_output_tokens, group_total_cost, group_by_model,
                   group_by_step, step_log, result, raised, ties, ui_scenario,
                   freq_i, freq_results, paths, results, fetch_vars,
                   thread_vars>>

\* the summary rows of a comparison: scenario (for its name), total, calls
SummaryRows(res) ==
    [i \in 1..Len(res) |->
        [label |-> res[i].scenario, cost_usd |-> res[i].result.total_monthly_cost_usd,
         calls |-> Some(res[i].result.total_calls_per_month)]]

\* the details of a comparison: one report per scenario, in the order given
RECURSIVE Details(_, _)
Details(format, res) ==
    IF res = <<>> THEN {<<>>}
    ELSE LET n == Len(res)
         IN  {Append(front, [name |-> res[n].scenario, body |-> text]) :
                 front \in Details(format, SubSeq(res, 1, n - 1)),
                 text \in generate_report(res[n].result, format)}

\* lines 34-54, 167-238
generate_comparison(res, format) ==
    IF format = "json"
    THEN {[format |-> "json", scenarios |-> res]}
    ELSE {[format |-> format, summary |-> rows, details |-> each] :
             rows \in Shown(SortDesc(SummaryRows(res))),
             each \in Details(format, res)}

\* run_simulation.py lines 73-89: the comparison of the scenarios run
GenerateComparison ==
    /\ pc = "compared"
    /\ \E format \in Formats :
          \E text \in generate_comparison(results, format) :
              report' = Some([kind |-> "comparison", body |-> text])
    /\ pc' = "reported"
    /\ UNCHANGED <<prices, scenario, gi, si, total_cost, total_calls,
                   total_input_tokens, total_output_tokens, by_model,
                   by_intent_group, by_step, runs_per_month, total_prompts,
                   previous_output_tokens, group_total_cost, group_by_model,
                   group_by_step, step_log, result, raised, ties, ui_scenario,
                   freq_i, freq_results, paths, results, fetch_vars,
                   thread_vars>>

NextReport ==
    \/ NextCompare
    \/ GenerateReport
    \/ GenerateComparison

SpecReport == InitCompare /\ [][NextReport]_vars

----------------------------------------------------------------------------
(* PriceFetcher: remote fetch, cache file and overrides file *)

CACHE_HOURS == 24

\* the remote cannot be reached, answers with an error status, or sends a body
\* that cannot be parsed: _fetch_remote raises
Fail == [status |-> "error"]

\* dict.get(k, default)
Get(d, k, default) == IF k \in DOMAIN d THEN d[k] ELSE default

\* the hours a timestamp can be at
Hours == 0..(StartHour + (MaxTicks + 1) * HoursPerTick)

\* datetime.isoformat and datetime.fromisoformat
IsoFormat(t) == ToString(t)

FromIsoFormat(s) == CHOOSE t \in Hours : IsoFormat(t) = s

\* ToJson losing the cached price
ToJson_without_cached(price) == [price EXCEPT !.updated_at = IsoFormat(@), !.input_cached_per_million = None]

\* line 157: price.model_dump(mode="json"), the timestamp becomes a string
ToJson(price) == [price EXCEPT !.updated_at = IsoFormat(@)]

\* line 149: ModelPrice(**item), the string becomes a timestamp again
FromJson(item) == [item EXCEPT !.updated_at = FromIsoFormat(@)]

\* lines 153-162: the file written, its mtime the time of writing
Saved(mapping) ==
    Some([mtime |-> now, content |-> [id \in DOMAIN mapping |-> ToJson(mapping[id])]])

\* lines 142-151
_load_from_cache ==
    [id \in DOMAIN cache[1].content |-> FromJson(cache[1].content[id])]

\* _is_cache_fresh taking any cache file for fresh
_is_cache_fresh_any_age == cache # None

\* lines 134-140
_is_cache_fresh == cache # None /\ now - cache[1].mtime < CACHE_HOURS

\* lines 64-70: the top-level timestamp, or now when it is missing or malformed
GlobalUpdatedAt(data) ==
    IF data.updated_at = None THEN now ELSE FromIsoFormat(data.updated_at[1])

\* lines 72-87: one ModelPrice per item that has an id, the last item of an id
\* standing
Parsed(data) ==
    LET items == data.prices
        with_id == {i \in 1..Len(items) : "id" \in DOMAIN items[i]}
        last(id) == CHOOSE i \in with_id :
                        /\ items[i].id = id
                        /\ \A j \in with_id : items[j].id = id => j <= i
    IN  [id \in {items[i].id : i \in with_id} |->
            LET item == items[last(id)]
            IN  [id |-> id,
                 vendor |-> Get(item, "vendor", "unknown"),
                 name |-> Get(item, "name", id),
                 input_per_million |-> Get(item, "input", 0),
                 output_per_million |-> Get(item, "output", 0),
                 input_cached_per_million |->
                     IF Get(item, "input_cached", 0) # 0
                     THEN Some(item.input_cached) ELSE None,
                 updated_at |-> GlobalUpdatedAt(data)]]

\* lines 104-115: the entry of an id the mapping has
Overridden(existing, override_data) ==
    [id |-> existing.id,
     vendor |-> existing.vendor,
     name |-> existing.name,
     input_per_million |->
         Get(override_data, "input_per_million", existing.input_per_million),
     output_per_million |->
         Get(override_data, "output_per_million", existing.output_per_million),
     input_cached_per_million |->
         IF "input_cached_per_million" \in DOMAIN override_data
         THEN Some(override_data.input_cached_per_million)
         ELSE existing.input_cached_per_million,
     updated_at |-> now]

\* lines 116-126: the entry of an id the mapping lacks
Added(model_id, override_data) ==
    [id |-> model_id,
     vendor |-> Get(override_data, "vendor", "custom"),
     name |-> Get(override_data, "name", model_id),
     input_per_million |-> override_data.input_per_million,
     output_per_million |-> override_data.output_per_million,
     input_cached_per_million |->
         IF "input_cached_per_million" \in DOMAIN override_data
         THEN Some(override_data.input_cached_per_million) ELSE None,
     updated_at |-> now]

\* lines 103-130: the entries are applied in file order; an entry for a new id
\* without both prices raises KeyError, which ends the loop with the mapping as
\* merged so far
RECURSIVE MergeFrom(_, _)
MergeFrom(mapping, entries) ==
    IF entries = <<>> THEN mapping
    ELSE LET model_id == entries[1].id
             override_data == entries[1].data
         IN  IF model_id \in DOMAIN mapping
             THEN MergeFrom([mapping EXCEPT ![model_id] =
                                 Overridden(mapping[model_id], override_data)],
                            Tail(entries))
             ELSE IF {"input_per_million", "output_per_million"}
                         \subseteq DOMAIN override_data
             THEN MergeFrom(mapping @@ (model_id :> Added(model_id, override_data)),
                            Tail(entries))
             ELSE mapping

\* lines 94-132
_apply_overrides(mapping) ==
    IF overrides_file = None THEN mapping ELSE MergeFrom(mapping, overrides_file[1])

\* lines 56-92
_fetch_remote(data) == _apply_overrides(Parsed(data))

\* lines 27-54: what the call returns (None when it raises), the cache file
\* after it, and whether the remote was asked
fetch_prices(force_refresh, response) ==
    IF ~force_refresh /\ _is_cache_fresh
    THEN [returned |-> Some(_load_from_cache), cache |-> cache, contacted |-> FALSE]
    ELSE IF response # Fail
    THEN LET mapping == _fetch_remote(response)
         IN  [returned |-> Some(mapping), cache |-> Saved(mapping), contacted |-> TRUE]
    ELSE IF cache # None
    THEN [returned |-> Some(_load_from_cache), cache |-> cache, contacted |-> TRUE]
    ELSE [returned |-> None, cache |-> cache, contacted |-> TRUE]

\* the record of a call: its argument, what the remote answered if it was asked,
\* what the call returned
Fetched(force_refresh, response) ==
    LET out == fetch_prices(force_refresh, response)
    IN  Some([force_refresh |-> force_refresh,
              response |-> IF out.contacted THEN Some(response) ELSE None,
              returned |-> out.returned])

\* what the remote may answer: nothing, two priced models and an item without
\* id, one model without vendor, name and timestamp and with a zero cached price
RemoteData ==
    {[updated_at |-> Some("10"),
      prices |-> <<[id |-> "m1", vendor |-> "acme", name |-> "Model 1",
                    input |-> 1, output |-> 2],
                   [id |-> "m2", vendor |-> "acme", name |-> "Model 2",
                    input |-> 3, output |-> 5, input_cached |-> 1],
                   [vendor |-> "acme", input |-> 9, output |-> 9]>>],
     [updated_at |-> None,
      prices |-> <<[id |-> "m1", input |-> 2, output |-> 4, input_cached |-> 0]>>]}

Responses == {Fail} \cup RemoteData

\* the overrides files: none; one field of a fetched model; a cached price and a
\* new model; a new model without its output price, then a fetched model
OverrideFiles ==
    {None,
     Some(<<[id |-> "m1", data |-> [input_per_million |-> 4]]>>),
     Some(<<[id |-> "m2", data |-> [input_cached_per_million |-> 2]],
            [id |-> "own", data |-> [input_per_million |-> 7,
                                     output_per_million |-> 8]]>>),
     Some(<<[id |-> "own", data |-> [input_per_million |-> 7]],
            [id |-> "m1", data |-> [output_per_million |-> 6]]>>)}

\* the cache an earlier run wrote at the given hour
CacheOf(hour) ==
    Some([mtime |-> hour,
          content |-> ("m1" :> [id |-> "m1", vendor |-> "acme", name |-> "Model 1",
                                input_per_million |-> 1, output_per_million |-> 3,
                                input_cached_per_million |-> None,
                                updated_at |-> IsoFormat(5)])])

\* no cache file, one written 12 hours ago, one written 24 hours ago
Caches == {None, CacheOf(StartHour - 12), CacheOf(StartHour - CACHE_HOURS)}

\* a scenario not loaded yet
NoScenario == Scenario(<<>>, <<>>, 30, NoOverrides)

\* the state before the first call of a run: nothing calculated, nothing loaded
InitIdle(caches, files) ==
    /\ prices = EmptyTable
    /\ paths = <<>>
    /\ scenario = NoScenario
    /\ pc = "idle"
    /\ gi = 0
    /\ si = 0
    /\ total_cost = 0
    /\ total_calls = 0
    /\ total_input_tokens = 0
    /\ total_output_tokens = 0
    /\ by_model = <<>>
    /\ by_intent_group = <<>>
    /\ by_step = <<>>
    /\ runs_per_month = 0
    /\ total_prompts = 0
    /\ previous_output_tokens = None
    /\ group_total_cost = 0
    /\ group_by_model = <<>>
    /\ group_by_step = <<>>
    /\ step_log = <<>>
    /\ result = None
    /\ raised = None
    /\ ui_scenario = scenario
    /\ freq_i = 0
    /\ freq_results = <<>>
    /\ ties = {}
    /\ results = <<>>
    /\ report = None
    /\ now = StartHour
    /\ cache \in caches
    /\ overrides_file \in files
    /\ fetched = None
    /\ call_count = 0
    /\ sim = NewSimulator
    /\ parked = None
    /\ tid = 1
    /\ alone = <<>>

InitFetch == InitIdle(Caches, OverrideFiles)

\* a call of PriceFetcher.fetch_prices
FetchPrices ==
    /\ pc = "idle"
    /\ call_count < MaxCalls
    /\ \E force_refresh \in BOOLEAN, response \in Responses :
          /\ fetched' = Fetched(force_refresh, response)
          /\ cache' = fetch_prices(force_refresh, response).cache
    /\ call_count' = call_count + 1
    /\ UNCHANGED <<prices, scenario, calc_vars, ties, ui_scenario, freq_i,
                   freq_results, paths, results, report, now, overrides_file, sim,
                   thread_vars>>

\* time passes between calls
Tick ==
    /\ pc = "idle"
    /\ now < StartHour + MaxTicks * HoursPerTick
    /\ now' = now + HoursPerTick
    /\ UNCHANGED <<prices, scenario, calc_vars, ties, ui_scenario, freq_i,
                   freq_results, paths, results, report, cache, overrides_file,
                   fetched, call_count, sim,
                   thread_vars>>

NextFetch ==
    \/ FetchPrices
    \/ Tick

SpecFetch == InitFetch /\ [][NextFetch]_vars

----------------------------------------------------------------------------
(* Simulator: load_prices, run_scenario, run_scenario_file, compare_scenarios *)

\* line 57
NotLoadedMessage == "Must call load_prices() before running scenarios"

\* the exception fetch_prices lets through
FetchErrorMessage == "fetch failed and no cache"

\* Loaded keeping a calculator that exists
Loaded_keep_calculator(s, mapping) == [s EXCEPT !.prices = Some(mapping), !.calculator = IF @ = None THEN Some(mapping) ELSE @]

\* lines 27-28: the prices and a calculator on them
Loaded(s, mapping) == [s EXCEPT !.prices = Some(mapping), !.calculator = Some(mapping)]

\* lines 20-29: the Simulator after load_prices, unchanged when fetch_prices
\* raises
load_prices(s, force_refresh, response) ==
    LET out == fetch_prices(force_refresh, response)
    IN  IF out.returned = None THEN s ELSE Loaded(s, out.returned[1])

\* the scenario files of the runs: one that calculates, one that raises at its
\* first step, one that raises at its group
SimScenarios ==
    {Scenario(<<"m1", "m2">>, <<IntentGroup("main", 10, 2, "daily", <<AnswerStep>>, None)>>,
              30, NoOverrides),
     Scenario(<<"m1">>, <<IntentGroup("main", 10, 2, "daily", <<ExtractStep>>, None)>>,
              30, NoOverrides),
     Scenario(<<"m1">>, <<IntentGroup("main", 10, 2, "custom", <<AnswerStep>>, None)>>,
              30, NoOverrides)}

SimPathLists == SeqsUpTo(SimScenarios, 2) \ {<<>>}

InitSim == InitIdle(Caches, {f \in OverrideFiles : f = None \/ Len(f[1]) = 1})

\* the file and the record a fetch_prices call leaves
FetchEffect(force_refresh, response) ==
    /\ fetched' = Fetched(force_refresh, response)
    /\ cache' = fetch_prices(force_refresh, response).cache

\* a method raises before any calculation
SimRaise(s, message) ==
    /\ sim' = s
    /\ pc' = "raised"
    /\ raised' = Some(message)
    /\ UNCHANGED <<prices, scenario, paths, result>>

\* lines 56-63: run_scenario on Simulator s, first of the given paths
RunOn(s, path_list, scenario_paths) ==
    IF s.calculator = None
    THEN SimRaise(s, NotLoadedMessage)
    ELSE /\ sim' = s
         /\ prices' = s.calculator[1]
         /\ scenario' = path_list[1]
         /\ paths' = scenario_paths
         /\ pc' = "call"
         /\ UNCHANGED <<result, raised>>

\* a call of Simulator.load_prices
LoadPrices ==
    /\ pc = "idle"
    /\ call_count < MaxCalls
    /\ call_count' = call_count + 1
    /\ \E force_refresh \in BOOLEAN, response \in Responses :
          LET s == [sim EXCEPT !.running = "load_prices"]
          IN  /\ FetchEffect(force_refresh, response)
              /\ IF fetch_prices(force_refresh, response).returned = None
                 THEN SimRaise(s, FetchErrorMessage)
                 ELSE /\ sim' = load_prices(s, force_refresh, response)
                      /\ UNCHANGED <<prices, scenario, paths, pc, result, raised>>
    /\ UNCHANGED <<calc_locals, ties, ui_scenario, freq_i, freq_results, results,
                   report, now, overrides_file,
                   thread_vars>>

\* a call of Simulator.run_scenario
RunScenario ==
    /\ pc = "idle"
    /\ call_count < MaxCalls
    /\ call_count' = call_count + 1
    /\ \E s \in SimScenarios :
          RunOn([sim EXCEPT !.running = "run_scenario"], <<s>>, <<>>)
    /\ UNCHANGED <<calc_locals, ties, ui_scenario, freq_i, freq_results, results,
                   report, now, cache, overrides_file, fetched,
                   thread_vars>>

\* lines 79-84 and 96-102: load_prices if need be, then run_scenario on the first
\* path
LoadAndRun(s, need, force_refresh, path_list, scenario_paths) ==
    IF need
    THEN \E response \in Responses :
            /\ FetchEffect(force_refresh, response)
            /\ IF fetch_prices(force_refresh, response).returned = None
               THEN SimRaise(s, FetchErrorMessage)
               ELSE RunOn(load_prices(s, force_refresh, response), path_list,
                          scenario_paths)
    ELSE /\ RunOn(s, path_list, scenario_paths)
         /\ UNCHANGED <<cache, fetched>>

\* a call of Simulator.run_scenario_file
RunScenarioFile ==
    /\ pc = "idle"
    /\ call_count < MaxCalls
    /\ call_count' = call_count + 1
    /\ \E s \in SimScenarios, force_refresh \in BOOLEAN :
          LoadAndRun([sim EXCEPT !.running = "run_scenario_file"],
                     sim.prices = None \/ force_refresh, force_refresh, <<s>>, <<>>)
    /\ UNCHANGED <<calc_locals, ties, ui_scenario, freq_i, freq_results, results,
                   report, now, overrides_file,
                   thread_vars>>

\* a call of Simulator.compare_scenarios
CompareScenariosCall ==
    /\ pc = "idle"
    /\ call_count < MaxCalls
    /\ call_count' = call_count + 1
    /\ \E path_list \in SimPathLists :
          LoadAndRun([sim EXCEPT !.running = "compare_scenarios"],
                     sim.prices = None, FALSE, path_list, path_list)
    /\ UNCHANGED <<calc_locals, ties, ui_scenario, freq_i, freq_results, results,
                   report, now, overrides_file,
                   thread_vars>>

\* the method returns or raises to its caller, its locals are gone
SimReturn ==
    /\ \/ pc = "returned" /\ Len(results) = Len(paths)
       \/ pc = "compared"
       \/ pc = "raised"
    /\ pc' = "idle"
    /\ sim' = [sim EXCEPT !.running = "none"]
    /\ scenario' = NoScenario
    /\ paths' = <<>>
    /\ results' = <<>>
    /\ result' = None
    /\ raised' = None
    /\ gi' = 0
    /\ si' = 0
    /\ total_cost' = 0
    /\ total_calls' = 0
    /\ total_input_tokens' = 0
    /\ total_output_tokens' = 0
    /\ by_model' = <<>>
    /\ by_intent_group' = <<>>
    /\ by_step' = <<>>
    /\ runs_per_month' = 0
    /\ total_prompts' = 0
    /\ previous_output_tokens' = None
    /\ group_total_cost' = 0
    /\ group_by_model' = <<>>
    /\ group_by_step' = <<>>
    /\ step_log' = <<>>
    /\ UNCHANGED <<prices, ties, ui_scenario, freq_i, freq_results, report, now,
                   cache, overrides_file, fetched, call_count,
                   thread_vars>>

NextSim ==
    \/ NextCompare
    \/ LoadPrices
    \/ RunScenario
    \/ RunScenarioFile
    \/ CompareScenariosCall
    \/ SimReturn
    \/ Tick

SpecSim == InitSim /\ [][NextSim]_vars

----------------------------------------------------------------------------
(* Two calculate_scenario calls on one CostCalculator, in two threads. Each   *)
(* scenario is first calculated alone, then both are calculated together,     *)
(* the threads taking turns at any point. A thread has its scenario and the   *)
(* locals of its call; self.prices is the calculator's                        *)

\* the scenario and the locals of the running thread
Context ==
    [scenario |-> scenario, pc |-> pc, gi |-> gi, si |-> si,
     total_cost |-> total_cost, total_calls |-> total_calls,
     total_input_tokens |-> total_input_tokens,
     total_output_tokens |-> total_output_tokens,
     by_model |-> by_model, by_intent_group |-> by_intent_group,
     by_step |-> by_step, runs_per_month |-> runs_per_month,
     total_prompts |-> total_prompts,
     previous_output_tokens |-> previous_output_tokens,
     group_total_cost |-> group_total_cost, group_by_model |-> group_by_model,
     group_by_step |-> group_by_step, step_log |-> step_log,
     result |-> result, raised |-> raised]

\* a thread about to call calculate_scenario(s)
NewContext(s) ==
    [scenario |-> s, pc |-> "call", gi |-> 0, si |-> 0,
     total_cost |-> 0, total_calls |-> 0, total_input_tokens |-> 0,
     total_output_tokens |-> 0, by_model |-> <<>>, by_intent_group |-> <<>>,
     by_step |-> <<>>, runs_per_month |-> 0, total_prompts |-> 0,
     previous_output_tokens |-> None, group_total_cost |-> 0,
     group_by_model |-> <<>>, group_by_step |-> <<>>, step_log |-> <<>>,
     result |-> None, raised |-> None]

\* the running thread takes up context c, but for by_step
ResumeRest(c) ==
    /\ scenario' = c.scenario
    /\ pc' = c.pc
    /\ gi' = c.gi
    /\ si' = c.si
    /\ total_cost' = c.total_cost
    /\ total_calls' = c.total_calls
    /\ total_input_tokens' = c.total_input_tokens
    /\ total_output_tokens' = c.total_output_tokens
    /\ by_model' = c.by_model
    /\ by_intent_group' = c.by_intent_group
    /\ runs_per_month' = c.runs_per_month
    /\ total_prompts' = c.total_prompts
    /\ previous_output_tokens' = c.previous_output_tokens
    /\ group_total_cost' = c.group_total_cost
    /\ group_by_model' = c.group_by_model
    /\ group_by_step' = c.group_by_step
    /\ step_log' = c.step_log
    /\ result' = c.result
    /\ raised' = c.raised

\* the running thread takes up context c
Resume(c) == ResumeRest(c) /\ by_step' = c.by_step

\* the two scenarios of a run
ThreadPairs == {<<a, b>> : a \in CompareScenarios, b \in CompareScenarios}

InitThreads == InitWith(ThreadPairs)

Finished(c) == c.pc \in {"returned", "raised"}

\* the scenario calculated alone has ended: its outcome is kept and the next is
\* calculated alone
AloneNext ==
    /\ parked = None
    /\ Finished(Context)
    /\ Len(alone) < Len(paths)
    /\ alone' = Append(alone, [result |-> result, raised |-> raised])
    /\ IF Len(alone) + 1 < Len(paths)
       THEN Resume(NewContext(paths[Len(alone) + 2])) /\ UNCHANGED parked
       ELSE Resume(NewContext(paths[1])) /\ parked' = Some(NewContext(paths[2]))
    /\ UNCHANGED <<prices, ties, ui_scenario, freq_i, freq_results, paths, results,
                   report, fetch_vars, tid>>

\* Switch with a step breakdown that the threads share
Switch_shared_by_step ==
    /\ parked # None
    /\ ResumeRest(parked[1])
    /\ by_step' = by_step
    /\ parked' = Some(Context)
    /\ tid' = 3 - tid
    /\ UNCHANGED <<prices, ties, ui_scenario, freq_i, freq_results, paths, results,
                   report, fetch_vars, alone>>

\* the interpreter hands the processor to the other thread
Switch ==
    /\ parked # None
    /\ Resume(parked[1])
    /\ parked' = Some(Context)
    /\ tid' = 3 - tid
    /\ UNCHANGED <<prices, ties, ui_scenario, freq_i, freq_results, paths, results,
                   report, fetch_vars, alone>>

NextThreads ==
    \/ Next
    \/ AloneNext
    \/ Switch

SpecThreads == InitThreads /\ [][NextThreads]_vars

TypeOK ==
    /\ pc \in {"call", "groups", "steps", "returned", "raised", "compared", "reported",
              "idle"}
    /\ (pc \in {"returned", "compared", "reported"}) => (result # None)
    /\ (pc = "raised") = (raised # None)
    /\ (raised # None) => (result = None)

----------------------------------------------------------------------------
(* Vocabulary of the properties *)

Abs(x) == IF x < 0 THEN -x ELSE x

Returned == pc = "returned"

\* sum of the cost_usd column of a returned breakdown
CostSum(rows) == SumSeq([i \in 1..Len(rows) |-> rows[i].cost_usd])

\* the monthly runs the specification gives for a frequency; the weekly
\* quotient is characterised by WeeklyQuotient
WeeklyQuotient(days) == CHOOSE q \in -1..days : 7 * q <= days /\ days < 7 * q + 7

SpecRuns(g, days) ==
    CASE g.frequency = "hourly" -> 24 * days
      [] g.frequency = "2_hourly" -> 12 * days
      [] g.frequency = "4_hourly" -> 6 * days
      [] g.frequency = "daily" -> days
      [] g.frequency = "weekly" -> WeeklyQuotient(days)
      [] g.frequency = "custom" -> g.custom_runs_per_month[1]

BasePrompts(g) == g.intents_count * g.variants_per_intent

\* the step_log entry of step s of group g
LogEntry(g, s) == step_log[CHOOSE i \in 1..Len(step_log) :
                               step_log[i].group = g /\ step_log[i].step = s]

\* table price of one call: the cached input price replaces the input price
\* when the step asks for it and the table has one
TableCallCost(m, step, input_tokens) ==
    LET p == prices[m]
        input_price == IF step.use_cached_input /\ p.input_cached_per_million # None
                       THEN p.input_cached_per_million[1] ELSE p.input_per_million
    IN  input_tokens * input_price + step.expected_output_tokens * p.output_per_million

AllCurrentAndPriced(s) ==
    /\ s.price_overrides = NoOverrides
    /\ \A i \in 1..Len(s.models) : s.models[i] \in DOMAIN prices
    /\ \A g \in 1..Len(s.intent_groups) :
          \A k \in 1..Len(s.intent_groups[g].flow_steps) :
              s.intent_groups[g].flow_steps[k].uses_model = "current"

\* sum over groups, steps and models of the monthly cost of the step on the model
ClosedFormTotal(s) ==
    SumSeq([g \in 1..Len(s.intent_groups) |->
        LET grp == s.intent_groups[g] IN
        SumSeq([k \in 1..Len(grp.flow_steps) |->
            SumSeq([i \in 1..Len(s.models) |->
                TableCallCost(s.models[i], grp.flow_steps[k], LogEntry(g, k).input_tokens)
                * BasePrompts(grp) * SpecRuns(grp, s.days_per_month)
                * grp.flow_steps[k].runs_per_prompt])])])

ConcreteScenario ==
    Scenario(<<"m1">>, <<IntentGroup("main", 10, 2, "daily", <<AnswerStep>>, None)>>,
             30, NoOverrides)

----------------------------------------------------------------------------
(* Properties *)

\* C1: for a returned scenario whose steps all use the "current" selector and
\* whose models are all priced, the total cost is the sum over groups, steps
\* and models of (input tokens * input price + output tokens * output price)
\* * intents * variants * runs per month * runs per prompt, and the returned
\* total is that sum rounded to cents; the concrete scenario (1 model at $1/$2,
\* 10 x 2 prompts, daily at 30 days, 100/50 tokens) returns 0.12 USD, 600 calls.
C1_TotalIsClosedForm ==
    (Returned /\ AllCurrentAndPriced(scenario)) =>
        /\ total_cost = ClosedFormTotal(scenario)
        /\ result[1].total_monthly_cost_usd \in Round2(ClosedFormTotal(scenario))
        /\ (scenario = ConcreteScenario =>
               /\ result[1].total_monthly_cost_usd = 120000
               /\ result[1].total_calls_per_month = 600)

C1_Witness ==
    /\ Returned
    /\ scenario = ConcreteScenario
    /\ result[1].total_monthly_cost_usd = 120000
    /\ result[1].total_calls_per_month = 600

\* C2: the returned total equals the sum of the by_model costs within 0.01
\* times the number of by_model entries.
C2_ByModelSumsToTotal ==
    Returned =>
        Abs(result[1].total_monthly_cost_usd - CostSum(result[1].by_model))
            <= MicroPerCent * Len(result[1].by_model)

\* C3 as stated: the returned total equals the sum of the by_step costs.
C3_ByStepSumsExactly ==
    Returned => result[1].total_monthly_cost_usd = CostSum(result[1].by_step)

\* C3: the unrounded total equals the unrounded sum of the per-step costs, and
\* the returned total equals the sum of the returned by_step costs within 0.01
\* times the number of by_step entries.
C3_ByStepSumsWithinRounding ==
    /\ pc = "groups" => total_cost = DictSum(by_step)
    /\ Returned =>
          Abs(result[1].total_monthly_cost_usd - CostSum(result[1].by_step))
              <= MicroPerCent * Len(result[1].by_step)

C3_Witness ==
    /\ Returned
    /\ Len(result[1].by_step) = 2
    /\ result[1].total_monthly_cost_usd # CostSum(result[1].by_step)
    /\ total_cost = DictSum(by_step)

\* a step with a specific model is about to be calculated, and is
SpecificStepTaken ==
    /\ pc = "steps"
    /\ si <= Len(Group.flow_steps)
    /\ Step.uses_model # "current"
    /\ Len(step_log') = Len(step_log) + 1

DictKeys(d) == {d[i].k : i \in 1..Len(d)}

\* C4: a step naming a specific model charges only that model, and for
\* intents * variants * len(scenario.models) prompts: the step's cost goes to
\* by_model under the named model alone and is the cost of one call times
\* that prompt count, the runs per month and the runs per prompt.
C4_SpecificStepChargesNamedModel ==
    [][SpecificStepTaken =>
        LET e == step_log'[Len(step_log')]
            named == Step.uses_model
        IN  /\ e.models_for_step = <<named>>
            /\ DictKeys(e.by_model) = {named}
            /\ e.total_prompts = BasePrompts(Group) * Len(scenario.models)
            /\ DictKeys(group_by_model') = DictKeys(group_by_model) \cup {named}
            /\ \A m \in DictKeys(group_by_model) \ {named} :
                  DictGet(group_by_model', m, 0) = DictGet(group_by_model, m, 0)
            /\ DictGet(group_by_model', named, 0)
                  = DictGet(group_by_model, named, 0) + e.total_cost
            /\ (named \in DOMAIN prices /\ named \notin DOMAIN scenario.price_overrides) =>
                  e.total_cost = TableCallCost(named, Step, e.input_tokens)
                                 * BasePrompts(Group) * Len(scenario.models)
                                 * runs_per_month * Step.runs_per_prompt
    ]_vars

\* three distinct tracked models, step 2 on a fourth model: 20 x 3 prompts,
\* charged to "judge" alone
C4_Witness ==
    /\ Returned
    /\ scenario.models = <<"m1", "m2", "ghost">>
    /\ scenario.intent_groups[1].flow_steps = <<AnswerStep, ExtractStep>>
    /\ step_log[2].total_prompts = 60
    /\ step_log[2].by_model = <<[k |-> "judge", v |-> step_log[2].total_cost]>>
    /\ step_log[2].total_cost > 0
    /\ Len(by_model) = 4
    /\ by_model[4] = [k |-> "judge", v |-> step_log[2].total_cost]

\* the step of the scenario a step_log entry is about
LoggedGroup(e) == scenario.intent_groups[e.group]

LoggedStep(e) == LoggedGroup(e).flow_steps[e.step]

\* C5: every step, also one after a specific-model step, charges for the
\* group's intents * variants prompts, times 1 for a "current" step and times
\* len(scenario.models) for a specific-model step.
C5_StepPromptsFromGroupBase ==
    \A i \in 1..Len(step_log) :
        LET e == step_log[i]
        IN  e.total_prompts =
                BasePrompts(LoggedGroup(e))
                * (IF LoggedStep(e).uses_model = "current" THEN 1
                   ELSE Len(scenario.models))

\* a "current" step after a specific-model step, with two or more models
C5_Witness ==
    /\ Len(scenario.models) >= 2
    /\ \E i, j \in 1..Len(step_log) :
          /\ i < j
          /\ step_log[i].group = step_log[j].group
          /\ LoggedStep(step_log[i]).uses_model # "current"
          /\ LoggedStep(step_log[j]).uses_model = "current"
          /\ step_log[i].total_prompts > step_log[j].total_prompts
          /\ step_log[j].total_prompts = BasePrompts(LoggedGroup(step_log[j]))

\* the call count the specification gives group g
SpecGroupCalls(g) ==
    LET grp == scenario.intent_groups[g]
    IN  SumSeq([k \in 1..Len(grp.flow_steps) |->
            Len(scenario.models) * grp.intents_count * grp.variants_per_intent
            * SpecRuns(grp, scenario.days_per_month) * grp.flow_steps[k].runs_per_prompt])

\* C6: a group's call count is the sum over its steps of len(models) *
\* intents * variants * runs per month * runs per prompt whatever the steps'
\* selectors, and total_calls_per_month is the sum of the groups' call counts.
C6_CallsAssumeFullFanOut ==
    /\ \A g \in 1..Len(by_intent_group) : by_intent_group[g].calls = SpecGroupCalls(g)
    /\ Returned =>
          /\ Len(result[1].by_intent_group) = Len(scenario.intent_groups)
          /\ result[1].total_calls_per_month =
                SumSeq([g \in 1..Len(scenario.intent_groups) |->
                           result[1].by_intent_group[g].calls])

\* two groups, one of them with a specific-model step, and calls made
C6_Witness ==
    /\ Returned
    /\ Len(scenario.intent_groups) = 2
    /\ Len(scenario.models) = 2
    /\ scenario.intent_groups[1].flow_steps[1].uses_model # "current"
    /\ result[1].by_intent_group[1].calls > 0
    /\ result[1].by_intent_group[2].calls > 0
    /\ result[1].total_calls_per_month
          = result[1].by_intent_group[1].calls + result[1].by_intent_group[2].calls

\* C7: runs per month is 24, 12, 6 or 1 times days_per_month for hourly,
\* 2-hourly, 4-hourly or daily, the integer quotient of days_per_month by 7
\* for weekly, and the group's custom_runs_per_month for custom.
C7_RunsPerMonth ==
    pc = "steps" =>
        LET days == scenario.days_per_month
        IN  /\ Group.frequency = "hourly" => runs_per_month = 24 * days
            /\ Group.frequency = "2_hourly" => runs_per_month = 12 * days
            /\ Group.frequency = "4_hourly" => runs_per_month = 6 * days
            /\ Group.frequency = "daily" => runs_per_month = days
            /\ Group.frequency = "weekly" =>
                  7 * runs_per_month <= days /\ days < 7 * runs_per_month + 7
            /\ Group.frequency = "custom" =>
                  Some(runs_per_month) = Group.custom_runs_per_month

\* weekly over 30 days: 4 runs
C7_Witness ==
    /\ pc = "steps"
    /\ Group.frequency = "weekly"
    /\ scenario.days_per_month = 30
    /\ runs_per_month = 4

SweepDone == Len(freq_results) = Len(FrequencyOrder)

\* C8 as stated: with only the frequency changed, cost(hourly) > cost(2-hourly)
\* > cost(4-hourly) > cost(daily) > cost(weekly), each strictly.
C8_StrictlyDecreasing ==
    SweepDone =>
        \A i \in 1..(Len(freq_results) - 1) :
            freq_results[i].cost > freq_results[i + 1].cost

\* C8: with only the frequency changed, cost(hourly) >= cost(2-hourly) >=
\* cost(4-hourly) >= cost(daily) >= cost(weekly).
C8_NonIncreasing ==
    \A i, j \in 1..Len(freq_results) :
        i < j => freq_results[i].cost >= freq_results[j].cost

C8_Witness ==
    /\ SweepDone
    /\ freq_results[1].frequency = "hourly"
    /\ freq_results[5].frequency = "weekly"
    /\ freq_results[1].cost > freq_results[4].cost
    /\ freq_results[4].cost > freq_results[5].cost
    /\ freq_results[5].cost > 0

NeedsPrevious(step) ==
    step.input_tokens_strategy \in {"from_previous_output", "percent_of_previous_output"}

\* C9: a first step using from_previous_output or percent_of_previous_output
\* raises, the error leaves calculate_scenario, and no result is returned, not
\* even one covering the groups already calculated.
C9_FirstStepNeedingPreviousRaises ==
    [][/\ (pc = "steps" /\ si = 1 /\ si <= Len(Group.flow_steps) /\ NeedsPrevious(Step)) =>
            /\ pc' = "raised"
            /\ result' = None
            /\ raised' \in {Some("Cannot use FROM_PREVIOUS_OUTPUT for first step"),
                            Some("Cannot use PERCENT_OF_PREVIOUS_OUTPUT for first step")}
       /\ pc = "raised" => (pc' = "raised" /\ result' = None)
    ]_vars

\* the second group raises after the first one was calculated
C9_Witness ==
    /\ pc = "raised"
    /\ raised = Some("Cannot use FROM_PREVIOUS_OUTPUT for first step")
    /\ gi = 2
    /\ Len(by_intent_group) = 1
    /\ total_cost > 0
    /\ result = None

\* C10: a group with frequency custom and no custom_runs_per_month makes
\* calculate_scenario raise; no result is returned.
C10_CustomWithoutRunsRaises ==
    [][(/\ pc = "groups"
        /\ gi <= Len(scenario.intent_groups)
        /\ Group.frequency = "custom"
        /\ Group.custom_runs_per_month = None) =>
            /\ pc' = "raised"
            /\ result' = None
            /\ raised' = Some("custom_runs_per_month must be set for CUSTOM frequency")
    ]_vars

C10_Witness ==
    /\ pc = "raised"
    /\ raised = Some("custom_runs_per_month must be set for CUSTOM frequency")
    /\ Group.frequency = "custom"
    /\ Group.custom_runs_per_month = None
    /\ result = None

PercentMessage == "percent_of_previous must be set for PERCENT_OF_PREVIOUS_OUTPUT"

\* C11: a step after the first that uses percent_of_previous_output and has no
\* percent_of_previous raises the configuration error; the error leaves
\* calculate_scenario and no result is returned.
C11_LaterPercentStepWithoutPercentRaises ==
    [][(/\ pc = "steps"
        /\ si > 1
        /\ si <= Len(Group.flow_steps)
        /\ Step.input_tokens_strategy = "percent_of_previous_output"
        /\ Step.percent_of_previous = None) =>
            /\ pc' = "raised"
            /\ raised' = Some(PercentMessage)
            /\ result' = None
    ]_vars

\* the second step raises after the first one was charged
C11_Witness ==
    /\ pc = "raised"
    /\ raised = Some(PercentMessage)
    /\ si = 2
    /\ Len(step_log) = 1
    /\ group_total_cost > 0
    /\ result = None

\* the step before a logged step
Predecessor(e) == scenario.intent_groups[e.group].flow_steps[e.step - 1]

PercentEntries ==
    {i \in 1..Len(step_log) :
        LoggedStep(step_log[i]).input_tokens_strategy = "percent_of_previous_output"}

StepRan == pc = "steps" /\ pc' = "steps" /\ si' = si + 1

\* C14: a from_previous_output step after the first never fails and takes as
\* input exactly the expected_output_tokens of the step before it in the same
\* group; every step hands its expected_output_tokens on whatever its selector,
\* strategy or the pricing of its models; entering a group clears the value.
C14_FromPreviousCarriesLastOutput ==
    [][/\ StepRan => previous_output_tokens' = Some(Step.expected_output_tokens)
       /\ (/\ pc = "steps"
           /\ si > 1
           /\ si <= Len(Group.flow_steps)
           /\ Step.input_tokens_strategy = "from_previous_output") =>
               /\ StepRan
               /\ step_log'[Len(step_log')].input_tokens
                      = Group.flow_steps[si - 1].expected_output_tokens
       /\ (pc = "groups" /\ pc' = "steps") => previous_output_tokens' = None
    ]_vars

\* the step before ran on a model without a price, and its 10 tokens arrive
C14_Witness ==
    /\ pc = "steps"
    /\ Len(step_log) = 2
    /\ LoggedStep(step_log[1]).uses_model \notin DOMAIN prices \cup {"current"}
    /\ LoggedStep(step_log[2]).input_tokens_strategy = "from_previous_output"
    /\ step_log[2].group = step_log[1].group
    /\ step_log[2].input_tokens = 10

FixedOrZero(step) ==
    IF step.fixed_input_tokens = None THEN 0 ELSE step.fixed_input_tokens[1]

\* C15 as stated: a from_prompt step resolves to its fixed_input_tokens, or to
\* 0 when that is unset, just as a fixed step does.
C15_FromPromptSameAsFixed ==
    \A i \in 1..Len(step_log) :
        LoggedStep(step_log[i]).input_tokens_strategy \in {"from_prompt", "fixed"} =>
            step_log[i].input_tokens = FixedOrZero(LoggedStep(step_log[i]))

\* C15: a fixed step resolves to its fixed_input_tokens, or to 0 when unset; a
\* from_prompt step resolves to its fixed_input_tokens when that is set and not
\* 0, and to 150 tokens when it is unset or 0.
C15_FromPromptDefaultsTo150 ==
    \A i \in 1..Len(step_log) :
        LET e == step_log[i]
            step == LoggedStep(e)
        IN  /\ step.input_tokens_strategy = "fixed" => e.input_tokens = FixedOrZero(step)
            /\ step.input_tokens_strategy = "from_prompt" =>
                   e.input_tokens = IF FixedOrZero(step) = 0 THEN 150 ELSE FixedOrZero(step)

\* a from_prompt step without fixed_input_tokens was charged for 150 tokens
C15_Witness ==
    \E i \in 1..Len(step_log) :
        /\ LoggedStep(step_log[i]).input_tokens_strategy = "from_prompt"
        /\ LoggedStep(step_log[i]).fixed_input_tokens = None
        /\ step_log[i].input_tokens = 150
        /\ step_log[i].total_cost > 0

\* how many calls a logged step makes per model in a month
Quantity(e) ==
    e.total_prompts * SpecRuns(LoggedGroup(e), scenario.days_per_month)
    * LoggedStep(e).runs_per_prompt

ConfigurationErrors ==
    {"Cannot use FROM_PREVIOUS_OUTPUT for first step",
     "Cannot use PERCENT_OF_PREVIOUS_OUTPUT for first step",
     PercentMessage,
     "custom_runs_per_month must be set for CUSTOM frequency"}

Unpriced(s) ==
    {s.models[i] : i \in 1..Len(s.models)} \ DOMAIN prices

\* C12: a model without an entry in the price table, listed in scenario.models
\* or named by a step, is charged 0 in every step (also when price_overrides has
\* an entry for it) and is reported with 0; the other models of the step are
\* charged their own price as if every model were priced; nothing is raised on
\* account of the missing price.
C12_UnknownModelCostsNothing ==
    /\ \A i \in 1..Len(step_log) :
          LET e == step_log[i] IN
          \A j \in 1..Len(e.by_model) :
              LET m == e.by_model[j].k IN
              /\ m \notin DOMAIN prices => e.by_model[j].v = 0
              /\ (m \in DOMAIN prices /\ m \notin DOMAIN scenario.price_overrides) =>
                     e.by_model[j].v
                        = TableCallCost(m, LoggedStep(e), e.input_tokens) * Quantity(e)
    /\ raised # None => raised[1] \in ConfigurationErrors
    /\ Returned =>
          /\ \A j \in 1..Len(result[1].by_model) :
                result[1].by_model[j].k \notin DOMAIN prices =>
                    result[1].by_model[j].cost_usd = 0
          /\ Unpriced(scenario) \subseteq {result[1].by_model[j].k :
                                                j \in 1..Len(result[1].by_model)}

\* returned: "ghost" is listed beside a priced model and named by a step that
\* makes calls; the priced model was charged
C12_Witness ==
    /\ Returned
    /\ "ghost" \in Unpriced(scenario)
    /\ DictGet(by_model, "ghost", 1) = 0
    /\ DictGet(by_model, "m1", 0) > 0
    /\ \E i \in 1..Len(step_log) :
          /\ LoggedStep(step_log[i]).uses_model = "ghost"
          /\ Quantity(step_log[i]) > 0
          /\ step_log[i].input_tokens > 0
    /\ result[1].total_calls_per_month > 0

\* a price field after override resolution: the override of the model when it
\* has one for the field, else the price table's value
Resolved(m, field, table_value) ==
    IF m \in DOMAIN scenario.price_overrides
       /\ field \in DOMAIN scenario.price_overrides[m]
    THEN scenario.price_overrides[m][field]
    ELSE table_value

ResolvedCached(m) ==
    IF m \in DOMAIN scenario.price_overrides
       /\ "input_cached_per_million" \in DOMAIN scenario.price_overrides[m]
    THEN Some(scenario.price_overrides[m]["input_cached_per_million"])
    ELSE prices[m].input_cached_per_million

\* the priced rows of the by_model of every logged step
PricedRows ==
    {<<i, j>> \in (1..Len(step_log)) \X (1..MaxModels + 1) :
        /\ j <= Len(step_log[i].by_model)
        /\ step_log[i].by_model[j].k \in DOMAIN prices}

\* C16: a priced model's call is charged at the cached-input price when the
\* step has use_cached_input and the model has a cached-input price after
\* override resolution, in the table or in price_overrides; otherwise at the
\* regular input price.
C16_CachedPriceAfterOverrides ==
    \A r \in PricedRows :
        LET e == step_log[r[1]]
            m == e.by_model[r[2]].k
            step == LoggedStep(e)
            input_price ==
                IF step.use_cached_input /\ ResolvedCached(m) # None
                THEN ResolvedCached(m)[1]
                ELSE Resolved(m, "input_per_million", prices[m].input_per_million)
            output_price == Resolved(m, "output_per_million", prices[m].output_per_million)
        IN  e.by_model[r[2]].v
               = (e.input_tokens * input_price
                  + step.expected_output_tokens * output_price) * Quantity(e)

\* the price table's entry with the overridden fields replaced
Patched(m) ==
    [f \in {"input_per_million", "output_per_million", "input_cached_per_million"} |->
        IF f = "input_cached_per_million" THEN ResolvedCached(m)
        ELSE Resolved(m, f, prices[m][f])]

\* the cost of one call of a step at the prices of an entry
EntryCallCost(p, step, input_tokens) ==
    input_tokens * (IF step.use_cached_input /\ p.input_cached_per_million # None
                    THEN p.input_cached_per_million[1] ELSE p.input_per_million)
    + step.expected_output_tokens * p.output_per_million

\* C17: a model with an entry in price_overrides is charged as if each field
\* of that entry had replaced the field of its price-table entry, the other
\* fields staying as in the table; a model without an entry in price_overrides
\* is charged at the table's prices.
C17_OverridesReplaceFieldByField ==
    \A r \in PricedRows :
        LET e == step_log[r[1]]
            m == e.by_model[r[2]].k
        IN  /\ m \notin DOMAIN scenario.price_overrides =>
                  e.by_model[r[2]].v
                     = TableCallCost(m, LoggedStep(e), e.input_tokens) * Quantity(e)
            /\ m \in DOMAIN scenario.price_overrides =>
                  e.by_model[r[2]].v
                     = EntryCallCost(Patched(m), LoggedStep(e), e.input_tokens) * Quantity(e)

\* the unrounded cost of group g: the sum of the costs of its steps
GroupCost(g) ==
    LET mine == SelectSeq(step_log, LAMBDA e : e.group = g)
    IN  SumSeq([i \in 1..Len(mine) |-> mine[i].total_cost])

\* C18: the returned total and every cost_usd of by_model, by_step and
\* by_intent_group is the unrounded accumulated sum rounded to 2 decimals.
C18_EveryCostRoundedAtOutput ==
    Returned =>
        LET res == result[1] IN
        /\ res.total_monthly_cost_usd \in Round2(total_cost)
        /\ \A j \in 1..Len(res.by_model) : res.by_model[j].cost_usd \in Round2(by_model[j].v)
        /\ \A j \in 1..Len(res.by_step) : res.by_step[j].cost_usd \in Round2(by_step[j].v)
        /\ \A j \in 1..Len(res.by_intent_group) :
              res.by_intent_group[j].cost_usd \in Round2(GroupCost(j))

\* C20: the token totals of the result and the input_tokens and output_tokens
\* of every by_intent_group entry are 0, whatever the scenario.
C20_TokenTotalsAreZero ==
    /\ total_input_tokens = 0
    /\ total_output_tokens = 0
    /\ \A j \in 1..Len(by_intent_group) :
          by_intent_group[j].input_tokens = 0 /\ by_intent_group[j].output_tokens = 0
    /\ Returned =>
          /\ result[1].total_input_tokens_per_month = 0
          /\ result[1].total_output_tokens_per_month = 0
          /\ \A j \in 1..Len(result[1].by_intent_group) :
                /\ result[1].by_intent_group[j].input_tokens = 0
                /\ result[1].by_intent_group[j].output_tokens = 0

\* returned with zero tokens although calls with tokens were charged
C20_Witness ==
    /\ Returned
    /\ result[1].total_calls_per_month > 0
    /\ result[1].total_monthly_cost_usd > 0
    /\ \E i \in 1..Len(step_log) :
          step_log[i].input_tokens > 0 /\ Quantity(step_log[i]) > 0
    /\ result[1].total_input_tokens_per_month = 0
    /\ result[1].total_output_tokens_per_month = 0
    /\ result[1].by_intent_group # <<>>

\* C19: whenever one calculator has calculated the same scenario more than
\* once, with any other scenarios calculated in between, every one of those
\* calls returned the same result; the calls leave the price table as it was.
C19_SameScenarioSameResult ==
    /\ prices = PriceTable
    /\ \A i, j \in 1..Len(results) :
          results[i].scenario = results[j].scenario =>
              results[i].result = results[j].result
    /\ Returned =>
          \A i \in 1..Len(results) :
              results[i].scenario = scenario => results[i].result = result[1]

\* the same scenario was calculated first and third, another one in between
C19_Witness ==
    /\ Len(results) = 3
    /\ results[1].scenario = results[3].scenario
    /\ results[2].scenario # results[1].scenario
    /\ results[2].result.total_monthly_cost_usd > 0
    /\ results[3].result.by_step # <<>>
    /\ results[3].result.total_calls_per_month > 0

\* C22: no step of calculate_scenario, on the way to a result or to an error,
\* changes the scenario it was given or the price table of the calculator.
C22_InputsUnchanged ==
    [][scenario' = scenario /\ prices' = prices]_vars

\* a call with price overrides and a step on a named model has returned, and
\* the scenario is still the one handed in
C22_Witness ==
    /\ Returned
    /\ scenario = paths[1]
    /\ prices = PriceTable
    /\ scenario.price_overrides # NoOverrides
    /\ total_cost > 0

\* C27: every cost a step adds to the total it also adds to by_model: the
\* by_model amounts of a step sum to the step's cost, and the unrounded
\* by_model amounts of a returned calculation sum to its unrounded total, also
\* when scenario.models repeats an identifier.
C27_ByModelConservesTotal ==
    /\ \A i \in 1..Len(step_log) :
          DictSum(step_log[i].by_model) = step_log[i].total_cost
    /\ Returned => DictSum(by_model) = total_cost

\* the unrounded cost of all logged steps called name
NamedCost(name) ==
    LET mine == SelectSeq(step_log, LAMBDA e : LoggedStep(e).name = name)
    IN  SumSeq([i \in 1..Len(mine) |-> mine[i].total_cost])

\* C30: a returned by_step has one entry for each distinct step name of the
\* scenario, holding the rounded sum of the costs of all steps of that name in
\* all groups; by_intent_group has one entry for each group, in the order of
\* the scenario, also when two groups have the same name.
C30_OneRowPerStepNameAndPerGroup ==
    Returned =>
        LET res == result[1]
            groups == scenario.intent_groups
        IN  /\ NoRepeat([j \in 1..Len(res.by_step) |-> res.by_step[j].k])
            /\ {res.by_step[j].k : j \in 1..Len(res.by_step)}
                  = {LoggedStep(step_log[i]).name : i \in 1..Len(step_log)}
            /\ \A g \in 1..Len(groups) : \A k \in 1..Len(groups[g].flow_steps) :
                  \E i \in 1..Len(step_log) :
                      step_log[i].group = g /\ step_log[i].step = k
            /\ \A j \in 1..Len(res.by_step) :
                  res.by_step[j].cost_usd \in Round2(NamedCost(res.by_step[j].k))
            /\ Len(res.by_intent_group) = Len(groups)
            /\ \A g \in 1..Len(groups) :
                  /\ res.by_intent_group[g].name = groups[g].name
                  /\ res.by_intent_group[g].cost_usd = GroupCost(g)

\* two groups of the same name, each with a step called "answer" that costs
\* something: one by_step row, two by_intent_group rows
C30_Witness ==
    /\ Returned
    /\ Len(scenario.intent_groups) = 2
    /\ scenario.intent_groups[1].name = scenario.intent_groups[2].name
    /\ Len(result[1].by_step) = 1
    /\ result[1].by_step[1].k = "answer"
    /\ Len(result[1].by_intent_group) = 2
    /\ \A g \in 1..2 : GroupCost(g) > 0
    /\ by_step[1].v = GroupCost(1) + GroupCost(2)

\* no entry of the price table was updated after entry m
IsLatest(m) == \A n \in DOMAIN prices : prices[n].updated_at <= prices[m].updated_at

\* C21 as stated: whatever the price table, meta has models_count, the number
\* of entries of the table, and price_source_updated_at, the latest updated_at
\* of the entries.
C21_MetaForAnyTable ==
    Returned =>
        /\ result[1].meta.models_count = Some(ToString(Cardinality(DOMAIN prices)))
        /\ \E m \in DOMAIN prices :
              IsLatest(m) /\ result[1].meta.price_source_updated_at
                                = ToString(prices[m].updated_at)

\* C21: for a price table with entries, meta has price_source_updated_at, the
\* ISO form of an updated_at of the table that no entry exceeds, and
\* models_count, the number of entries as a decimal string; for a price table
\* without entries meta has price_source_updated_at "unknown" and no
\* models_count.
C21_MetaOfNonEmptyTable ==
    Returned =>
        IF DOMAIN prices = {}
        THEN result[1].meta = [price_source_updated_at |-> "unknown", models_count |-> None]
        ELSE /\ result[1].meta.models_count = Some(ToString(Cardinality(DOMAIN prices)))
             /\ \E m \in DOMAIN prices :
                   IsLatest(m) /\ result[1].meta.price_source_updated_at
                                     = ToString(prices[m].updated_at)

\* four entries, the latest one (day 14) is not the last of the table
C21_Witness ==
    /\ Returned
    /\ Cardinality(DOMAIN prices) = 4
    /\ result[1].meta = [price_source_updated_at |-> "14", models_count |-> Some("4")]
    /\ result[1].total_monthly_cost_usd > 0

----------------------------------------------------------------------------
(* C26 *)

\* rows in non-increasing cost_usd
NonIncreasing(rows) ==
    \A i \in 1..Len(rows) - 1 : rows[i].cost_usd >= rows[i + 1].cost_usd

\* a printed row without its printed amount
Plain(row) == [label |-> row.label, cost_usd |-> row.cost_usd, calls |-> row.calls]

\* the printed rows are the given rows, each as often, in some order, and every
\* amount is printed to the cent
SameRows(printed, given) ==
    /\ Len(printed) = Len(given)
    /\ \A i \in 1..Len(printed) :
          /\ printed[i].shown \in Round2(printed[i].cost_usd)
          /\ Cardinality({j \in 1..Len(printed) : Plain(printed[j]) = Plain(printed[i])})
               = Cardinality({j \in 1..Len(given) : given[j] = Plain(printed[i])})

\* a text or markdown report lists the three breakdowns of res in non-increasing
\* cost and shows its header figures; a JSON report is res itself
Renders(body, res) ==
    IF body.format = "json" THEN body.results = res
    ELSE /\ NonIncreasing(body.by_model)
         /\ NonIncreasing(body.by_intent_group)
         /\ NonIncreasing(body.by_step)
         /\ SameRows(body.by_model, Rows(res.by_model))
         /\ SameRows(body.by_intent_group, Rows(res.by_intent_group))
         /\ SameRows(body.by_step, Rows(res.by_step))
         /\ body.total = res.total_monthly_cost_usd
         /\ body.calls = res.total_calls_per_month
         /\ body.meta = res.meta

\* a comparison lists the scenarios in non-increasing total and then every
\* scenario's own report
RendersAll(body, res) ==
    IF body.format = "json" THEN body.scenarios = res
    ELSE /\ NonIncreasing(body.summary)
         /\ SameRows(body.summary, SummaryRows(res))
         /\ Len(body.details) = Len(res)
         /\ \A i \in 1..Len(res) :
               /\ body.details[i].name = res[i].scenario
               /\ body.details[i].body.format = body.format
               /\ Renders(body.details[i].body, res[i].result)

\* C26: in the text and markdown reports the by_model, by_intent_group and
\* by_step rows are the result's rows in non-increasing cost_usd, the comparison
\* summary lists the scenarios in non-increasing total_monthly_cost_usd, and
\* generating a report leaves the result and the compared results as they were.
C26_ReportsSortedByCost ==
    [][report' # report =>
          /\ result' = result
          /\ results' = results
          /\ IF report'[1].kind = "report"
             THEN Renders(report'[1].body, result[1])
             ELSE RendersAll(report'[1].body, results)]_vars

\* a text comparison whose summary and whose model rows both had to be reordered
C26_Witness ==
    /\ pc = "reported"
    /\ report # None
    /\ report[1].kind = "comparison"
    /\ report[1].body.format = "text"
    /\ Len(results) >= 2
    /\ results[1].result.total_monthly_cost_usd < results[2].result.total_monthly_cost_usd
    /\ report[1].body.summary[1].label = results[2].scenario
    /\ \E i \in 1..Len(results) :
          /\ Len(results[i].result.by_model) = 2
          /\ results[i].result.by_model[1].cost_usd < results[i].result.by_model[2].cost_usd
          /\ report[1].body.details[i].body.by_model[1].label = results[i].result.by_model[2].k

----------------------------------------------------------------------------
(* C23, C24, C29 *)

\* the mapping a cache file holds
Held(file) == [id \in DOMAIN file[1].content |-> FromJson(file[1].content[id])]

\* the cache file exists and is younger than 24 hours
Younger24h == cache # None /\ now - cache[1].mtime < 24

\* the call that has just been made asked the remote and got prices
RemoteSucceeded(call) == call.response # None /\ call.response[1] # Fail

\* the call that has just been made asked the remote and got nothing
RemoteFailed(call) == call.response = Some(Fail)

\* C23: fetch_prices returns a cache younger than 24 hours without asking the
\* remote unless force_refresh is set; otherwise it asks the remote and, on
\* success, writes the result to the cache and returns it; on failure it returns
\* the existing cache whatever its age; with no cache file the call fails.
C23_FetchOrder ==
    [][call_count' # call_count =>
          LET call == fetched'[1]
          IN  IF ~call.force_refresh /\ Younger24h
              THEN /\ call.response = None
                   /\ call.returned = Some(Held(cache))
                   /\ cache' = cache
              ELSE /\ call.response # None
                   /\ IF call.response[1] # Fail
                      THEN /\ call.returned = Some(_fetch_remote(call.response[1]))
                           /\ cache' # None
                           /\ cache'[1].mtime = now
                           /\ Held(cache') = call.returned[1]
                      ELSE IF cache # None
                      THEN call.returned = Some(Held(cache)) /\ cache' = cache
                      ELSE call.returned = None /\ cache' = None]_vars

\* the remote failed on a call without force_refresh and the cache, 24 hours old
\* or more, was returned
C23_Witness ==
    /\ fetched # None
    /\ ~fetched[1].force_refresh
    /\ RemoteFailed(fetched[1])
    /\ cache # None
    /\ now - cache[1].mtime >= 24
    /\ fetched[1].returned = Some(Held(cache))

\* C24: the overrides file is merged over the fetched prices by model id and per
\* field: for an id the fetched data has, each overridden price field replaces
\* the fetched value and the other fields are kept; an id the fetched data lacks
\* gets a new entry; ids the file does not mention are returned unchanged.
C24_OverridesMergedPerField ==
    [][(call_count' # call_count /\ RemoteSucceeded(fetched'[1])
            /\ overrides_file # None) =>
          LET got == Parsed(fetched'[1].response[1])
              out == fetched'[1].returned[1]
              entries == overrides_file[1]
              mentioned == {entries[i].id : i \in 1..Len(entries)}
          IN  /\ \A i \in 1..Len(entries) :
                    LET id == entries[i].id
                        data == entries[i].data
                    IN  /\ id \in DOMAIN out
                        /\ id \in DOMAIN got =>
                              /\ out[id].vendor = got[id].vendor
                              /\ out[id].name = got[id].name
                              /\ out[id].input_per_million =
                                    Get(data, "input_per_million", got[id].input_per_million)
                              /\ out[id].output_per_million =
                                    Get(data, "output_per_million", got[id].output_per_million)
                              /\ out[id].input_cached_per_million =
                                    IF "input_cached_per_million" \in DOMAIN data
                                    THEN Some(data.input_cached_per_million)
                                    ELSE got[id].input_cached_per_million
              /\ \A id \in DOMAIN got \ mentioned : out[id] = got[id]
              /\ DOMAIN out = DOMAIN got \cup mentioned]_vars

\* C29: after a successful remote fetch the cache holds exactly the mapping the
\* call returned, so that a following call without force_refresh within 24 hours
\* returns the same mapping without asking the remote; a failed remote fetch
\* leaves the cache file as it was.
C29_CacheHoldsWhatWasReturned ==
    [][call_count' # call_count =>
          LET call == fetched'[1]
          IN  /\ RemoteSucceeded(call) => Held(cache') = call.returned[1]
              /\ RemoteFailed(call) => cache' = cache
              /\ (/\ fetched # None
                  /\ RemoteSucceeded(fetched[1])
                  /\ ~call.force_refresh
                  /\ Younger24h)
                    => /\ call.response = None
                       /\ call.returned = fetched[1].returned]_vars

\* twelve hours after a fetch that merged a new model and a cached price, a
\* call was answered from the cache with the merged mapping
C29_Witness ==
    /\ fetched # None
    /\ fetched[1].response = None
    /\ ~fetched[1].force_refresh
    /\ now = cache[1].mtime + HoursPerTick
    /\ cache[1].mtime >= StartHour
    /\ "own" \in DOMAIN fetched[1].returned[1]
    /\ fetched[1].returned[1]["m2"].input_cached_per_million = Some(2)

----------------------------------------------------------------------------
(* C28 *)

\* a calculation is under way or has returned
Calculating == pc \in {"call", "groups", "steps", "returned", "compared"}

\* C28: run_scenario never produces a result before prices are loaded: on a
\* Simulator on which no load_prices has completed it raises RuntimeError, and
\* after any sequence of load_prices, run_scenario_file and compare_scenarios
\* calls the calculator in use is the one built from the price table loaded
\* last.
C28_CalculatorOnLastLoadedPrices ==
    [][/\ sim'.calculator = sim'.prices
       /\ IF fetched' # None /\ fetched'[1].returned # None
          THEN sim'.prices = fetched'[1].returned
          ELSE sim'.prices = sim.prices
       /\ Calculating' => (sim'.calculator # None /\ prices' = sim'.calculator[1])
       /\ result' # None => sim'.prices # None
       /\ (call_count' # call_count /\ sim'.running = "run_scenario"
              /\ sim.prices = None)
            => (pc' = "raised" /\ raised' = Some(NotLoadedMessage) /\ result' = None)]_vars

\* a second call reloaded the prices and its scenario returned a result
\* calculated on them
C28_Witness ==
    /\ pc = "returned"
    /\ call_count >= 2
    /\ sim.running = "run_scenario_file"
    /\ fetched[1].force_refresh
    /\ RemoteSucceeded(fetched[1])
    /\ cache[1].mtime > StartHour
    /\ prices = fetched[1].returned[1]
    /\ result[1].total_monthly_cost_usd > 0

----------------------------------------------------------------------------
(* C25 *)

\* the outcome of a thread that has ended is the outcome its scenario had alone
AsAlone(c, thread) ==
    Finished(c) => (c.result = alone[thread].result /\ c.raised = alone[thread].raised)

\* C25: calculations that run concurrently on one calculator and price table
\* are independent: however the threads take turns, each returns the result, or
\* raises the error, that its scenario gives when calculated alone, and no step
\* writes to the shared price table.
C25_ConcurrentAsAlone ==
    [][/\ prices' = prices
       /\ parked' # None => (/\ AsAlone(Context, tid)'
                             /\ AsAlone(parked[1], 3 - tid)')]_vars

\* the second thread has returned its result while the first, which began
\* before it, is still among its steps, and both scenarios cost something
C25_Witness ==
    /\ parked # None
    /\ tid = 1
    /\ pc = "steps"
    /\ si >= 1
    /\ parked[1].pc = "returned"
    /\ parked[1].result[1].total_monthly_cost_usd > 0
    /\ alone[1].result # None
    /\ alone[1].result[1].total_monthly_cost_usd > 0
    /\ paths[1] # paths[2]

====
